---- MODULE Spec2Model ----
(***************************************************************************)
(* Lifecycle manager of the Telegram admin bot: the resource store         *)
(* (modules/database.py), the provider client (create_test_instance.py,    *)
(* create_k8s_cluster.py) and the two background passes of bot.py          *)
(* (notify_and_check_instances, poll_provisioning_clusters).               *)
(*                                                                         *)
(* Time is counted in whole seconds.  A stored timestamp is the text       *)
(* "%Y-%m-%d %H:%M:%S"; it is modelled as the pair <<day, second of day>>, *)
(* which SQLite compares field by field as it compares the text.           *)
(***************************************************************************)
EXTENDS Integers, Sequences, FiniteSets, TLC

VARIABLES
    now,          \* wall clock, seconds (datetime.now())
    instances,    \* table instances: droplet_id -> row or NoRow
    clusters,     \* table clusters: cluster_id -> row or NoRow
    doDroplets,   \* droplets that exist at the provider
    doClusters,   \* provider side of the clusters: cluster_id -> live state
    pa,           \* the task running notify_and_check_instances
    pb,           \* the task running poll_provisioning_clusters
    calls,        \* handler calls in flight: slot -> call record
    last,         \* the last store / handler call and what it returned
    cache         \* the lookup caches of the two provider modules

vars == <<now, instances, clusters, doDroplets, doClusters, pa, pb, calls, last, cache>>

-----------------------------------------------------------------------------
(* Bounds of the model *)

MaxDay == 2          \* last day the clock reaches
MaxDroplets == 2     \* droplet ids the provider hands out
MaxClusters == 2     \* cluster ids the provider hands out
MaxCalls == 2        \* handler calls that may be in flight together
MaxExtDays == 11     \* no extension beyond this day

(* Program constants *)

SecondsPerDay == 86400     \* timedelta(days=1).total_seconds()
WarnWindow == 86400        \* if 0 < time_left <= 86400
MAX_RETRIES == 3
BACKOFF_BASE == 1
BackoffCap == 30

\* Python None, and the absence of a row; comparable with rows and timestamps
None == <<>>
NoRow == <<>>

Users == {41, 42}
ClusterNames == {"alpha", "beta"}
DropletIds == 1..MaxDroplets
ClusterIds == 1..MaxClusters
Slots == 1..MaxCalls

Durations == {1, 3}           \* duration_1, duration_3 of the duration menus
ExtendDays == {3, 7}          \* extend_3_, extend_7_ buttons

\* Instants the clock is observed at: around each day boundary.
Offsets == {0, 1, SecondsPerDay - 1}
Instants == {d * SecondsPerDay + o : d \in 0..MaxDay, o \in {0, 1}}

-----------------------------------------------------------------------------
(* Timestamps *)

\* datetime.strftime("%Y-%m-%d %H:%M:%S")
StrFTime(t) == <<t \div SecondsPerDay, t % SecondsPerDay>>

\* datetime.strptime(s, "%Y-%m-%d %H:%M:%S")
StrPTime(s) == s[1] * SecondsPerDay + s[2]

\* datetime + timedelta(days=days)
PlusDays(t, days) == t + days * SecondsPerDay

\* text comparison a <= b of two formatted timestamps
SqlLE(a, b) == \/ a[1] < b[1]
               \/ a[1] = b[1] /\ a[2] <= b[2]

\* datetime('now', 'localtime'): the day is not added
SqlNowOnly(t) == StrFTime(t)

\* datetime('now', 'localtime', '+1 day')
SqlNowPlusDay(t) == StrFTime(PlusDays(t, 1))

-----------------------------------------------------------------------------
(* Resource store: table instances *)

InstanceRow(exp, creator, zone, rec, dom) ==
    [expiration_date |-> exp, creator_id |-> creator,
     dns_zone |-> zone, dns_record_id |-> rec, domain_name |-> dom]

\* INSERT INTO instances; a duplicate primary key is an sqlite3.Error, logged
SaveInstance(tbl, id, exp, creator) ==
    IF tbl[id] # NoRow THEN tbl
    ELSE [tbl EXCEPT ![id] = InstanceRow(exp, creator, None, None, None)]

\* a fetch that leaves the DNS columns out
GetInstanceByIdNoDns(tbl, id) ==
    IF id \in DOMAIN tbl /\ tbl[id] # NoRow
    THEN [tbl[id] EXCEPT !.domain_name = None, !.dns_record_id = None, !.dns_zone = None]
    ELSE None

\* SELECT ... FROM instances WHERE droplet_id = ?; dict(row) or None
GetInstanceById(tbl, id) == IF id \in DOMAIN tbl /\ tbl[id] # NoRow THEN tbl[id] ELSE None

RECURSIVE SeqOfIds(_)
SeqOfIds(ids) ==
    IF ids = {} THEN <<>>
    ELSE LET m == CHOOSE i \in ids : \A j \in ids : i <= j
         IN  <<m>> \o SeqOfIds(ids \ {m})

\* a query that takes the rows expiring within the next day and not the expired ones
GetExpiringInstancesAhead(tbl, t) ==
    LET due == {i \in DOMAIN tbl : /\ tbl[i] # NoRow
                                   /\ SqlLE(tbl[i].expiration_date, SqlNowPlusDay(t))
                                   /\ ~ SqlLE(tbl[i].expiration_date, StrFTime(t))}
        ids == SeqOfIds(due)
    IN  [k \in 1..Len(ids) |-> [id |-> ids[k], row |-> tbl[ids[k]]]]

\* SELECT ... FROM instances WHERE expiration_date <= datetime('now','localtime','+1 day')
GetExpiringInstances(tbl, t) ==
    LET due == {i \in DOMAIN tbl : tbl[i] # NoRow /\ SqlLE(tbl[i].expiration_date, SqlNowPlusDay(t))}
        ids == SeqOfIds(due)
    IN  [k \in 1..Len(ids) |-> [id |-> ids[k], row |-> tbl[ids[k]]]]

ExtendInstanceFromNow(tbl, id, days, t) ==
    IF id \notin DOMAIN tbl \/ tbl[id] = NoRow THEN [tbl |-> tbl, ret |-> None]
    ELSE LET new == StrFTime(PlusDays(t, days))
         IN  [tbl |-> [tbl EXCEPT ![id].expiration_date = new], ret |-> new]

ExtendInstanceUpsert(tbl, id, days, t) ==
    IF id \in DOMAIN tbl /\ tbl[id] = NoRow
    THEN [tbl |-> [tbl EXCEPT ![id] = InstanceRow(StrFTime(PlusDays(t, days)), 0, None, None, None)],
          ret |-> StrFTime(PlusDays(t, days))]
    ELSE ExtendInstanceFromNow(tbl, id, days, t)

\* an extension that adds the number as hours: timedelta(hours=days)
ExtendInstanceHours(tbl, id, days, t) ==
    IF id \notin DOMAIN tbl \/ tbl[id] = NoRow THEN [tbl |-> tbl, ret |-> None]
    ELSE LET new == StrFTime(StrPTime(tbl[id].expiration_date) + days * 3600)
         IN  [tbl |-> [tbl EXCEPT ![id].expiration_date = new], ret |-> new]

\* extend_instance_expiration(droplet_id, days); t is the clock, which it never reads
ExtendInstanceExpiration(tbl, id, days, t) ==
    IF id \notin DOMAIN tbl \/ tbl[id] = NoRow THEN [tbl |-> tbl, ret |-> None]
    ELSE LET current_expiration == StrPTime(tbl[id].expiration_date)
             new_expiration_str == StrFTime(PlusDays(current_expiration, days))
         IN  [tbl |-> [tbl EXCEPT ![id].expiration_date = new_expiration_str],
              ret |-> new_expiration_str]

\* delete_instance(droplet_id): rowcount > 0
DeleteInstance(tbl, id) ==
    IF id \notin DOMAIN tbl \/ tbl[id] = NoRow THEN [tbl |-> tbl, ret |-> FALSE]
    ELSE [tbl |-> [tbl EXCEPT ![id] = NoRow], ret |-> TRUE]

-----------------------------------------------------------------------------
(* Resource store: table clusters *)

ClusterRow(name, creator, status, endpoint, exp) ==
    [cluster_name |-> name, creator_id |-> creator, status |-> status,
     endpoint |-> endpoint, expiration_date |-> exp]

SaveK8sCluster(tbl, id, name, creator, status, endpoint, exp) ==
    IF tbl[id] # NoRow THEN tbl
    ELSE [tbl EXCEPT ![id] = ClusterRow(name, creator, status, endpoint, exp)]

GetK8sClusterById(tbl, id) == IF id \in DOMAIN tbl /\ tbl[id] # NoRow THEN tbl[id] ELSE None

\* the non-deleted cluster of that name and creator, or None
GetK8sClusterByName(tbl, name, creator) ==
    LET hit == {i \in DOMAIN tbl : /\ tbl[i] # NoRow
                                   /\ tbl[i].cluster_name = name
                                   /\ tbl[i].creator_id = creator
                                   /\ tbl[i].status # "deleted"}
    IN  IF hit = {} THEN None
        ELSE LET i == CHOOSE i \in hit : \A j \in hit : i <= j
             IN  [cluster_id |-> i, row |-> tbl[i]]

GetExpiringK8sClusters(tbl, t) ==
    LET due == {i \in DOMAIN tbl : /\ tbl[i] # NoRow
                                   /\ tbl[i].status # "deleted"
                                   /\ SqlLE(tbl[i].expiration_date, SqlNowPlusDay(t))}
        ids == SeqOfIds(due)
    IN  [k \in 1..Len(ids) |-> [id |-> ids[k], row |-> tbl[ids[k]]]]

GetProvisioningK8sClusters(tbl) ==
    LET prov == {i \in DOMAIN tbl : tbl[i] # NoRow /\ tbl[i].status = "provisioning"}
        ids == SeqOfIds(prov)
    IN  [k \in 1..Len(ids) |-> [id |-> ids[k], row |-> tbl[ids[k]]]]

\* the default endpoint=None of update_k8s_cluster_status: the endpoint is kept
KeepEndpoint == "<none>"

\* update_k8s_cluster_status(cluster_id, status, endpoint=None): reports a missing row
UpdateK8sClusterStatus(tbl, id, status, endpoint) ==
    IF id \notin DOMAIN tbl \/ tbl[id] = NoRow THEN [tbl |-> tbl, ret |-> FALSE]
    ELSE [tbl |-> [tbl EXCEPT ![id].status = status,
                              ![id].endpoint = IF endpoint = KeepEndpoint THEN @ ELSE endpoint],
          ret |-> TRUE]

ExtendK8sClusterExpiration(tbl, id, days) ==
    IF id \notin DOMAIN tbl \/ tbl[id] = NoRow THEN [tbl |-> tbl, ret |-> None]
    ELSE LET new == StrFTime(PlusDays(StrPTime(tbl[id].expiration_date), days))
         IN  [tbl |-> [tbl EXCEPT ![id].expiration_date = new], ret |-> new]

DbDeleteK8sCluster(tbl, id) ==
    IF id \notin DOMAIN tbl \/ tbl[id] = NoRow THEN [tbl |-> tbl, ret |-> FALSE]
    ELSE [tbl |-> [tbl EXCEPT ![id] = NoRow], ret |-> TRUE]

-----------------------------------------------------------------------------
(* The record of the last call: what was asked and what came back *)

NoCall ==
    [seq |-> 0, op |-> "none", id |-> 0, days |-> 0, user |-> 0, name |-> "",
     ok |-> FALSE, ret |-> None, from |-> None, n |-> 1]

\* n counts equal calls in a row (up to 2) with the same kind of result
Call(op, id, days, user, name, ok, ret, from) ==
    [seq |-> 1 - last.seq, op |-> op, id |-> id, days |-> days, user |-> user,
     name |-> name, ok |-> ok, ret |-> ret, from |-> from,
     n |-> IF /\ last.op = op /\ last.id = id /\ last.days = days
              /\ (last.ret = None) = (ret = None) /\ last.n = 1
           THEN 2 ELSE 1]

\* the stored expiration before the first call of a run of equal calls
FromOf(op, id, days, old) ==
    IF last.op = op /\ last.id = id /\ last.days = days /\ last.ret # None /\ last.n = 1
    THEN last.from ELSE old

ExpOf(tbl, id) == IF id \in DOMAIN tbl /\ tbl[id] # NoRow THEN tbl[id].expiration_date ELSE None

\* the extension keeps the expiration date within the days of the model
WithinCap(tbl, id, days, cap) ==
    ExpOf(tbl, id) # None => ExpOf(tbl, id)[1] + days <= cap

-----------------------------------------------------------------------------
(* Provider client: the retry loop of the cluster requests *)

RespKinds == {"2xx", "4xx", "429", "5xx", "timeout"}

\* every sequence of answers to the attempts of one call
RespSeqs == [1..MAX_RETRIES -> RespKinds]

\* the answers the provider gives in the runs of the jobs and handlers
Answers ==
    {<<"2xx", "2xx", "2xx">>, <<"5xx", "timeout", "2xx">>, <<"429", "5xx", "4xx">>,
     <<"429", "429", "429">>}

Min(a, b) == IF a <= b THEN a ELSE b

\* attempt: range(MAX_RETRIES); last_exc: a TimeoutException was caught before
RECURSIVE RetryLoop(_, _, _, _, _)
RetryLoop(resps, attempt, delay, last_exc, sleeps) ==
    IF attempt >= MAX_RETRIES
    THEN [outcome |-> IF last_exc THEN "TimeoutException" ELSE "RuntimeError",
          requests |-> attempt, sleeps |-> sleeps]
    ELSE LET r == resps[attempt + 1]
             again == RetryLoop(resps, attempt + 1, Min(delay * 2, BackoffCap),
                                last_exc \/ r = "timeout", Append(sleeps, delay))
         IN  CASE r = "429" -> again
               [] r = "5xx" ->
                    IF attempt < MAX_RETRIES - 1 THEN again
                    ELSE [outcome |-> "HTTPStatusError", requests |-> attempt + 1, sleeps |-> sleeps]
               [] r = "timeout" ->
                    IF attempt < MAX_RETRIES - 1 THEN again
                    ELSE [outcome |-> "TimeoutException", requests |-> attempt + 1, sleeps |-> sleeps]
               [] r = "4xx" ->
                    [outcome |-> "HTTPStatusError", requests |-> attempt + 1, sleeps |-> sleeps]
               [] OTHER ->
                    [outcome |-> "response", requests |-> attempt + 1, sleeps |-> sleeps]

\* a loop that takes a 4xx answer for a server error and tries again
DoRequestRetry4xx(resps) ==
    RetryLoop([k \in DOMAIN resps |-> IF resps[k] = "4xx" THEN "5xx" ELSE resps[k]],
              0, BACKOFF_BASE, FALSE, <<>>)

\* a loop whose delay stays at its base
DoRequestFlatDelay(resps) ==
    [RetryLoop(resps, 0, BACKOFF_BASE, FALSE, <<>>) EXCEPT
        !.sleeps = [k \in DOMAIN @ |-> BACKOFF_BASE]]

\* a loop in which a 429 answer does not use up an attempt: one more request for each
DoRequestUncounted429(resps) ==
    [RetryLoop(resps, 0, BACKOFF_BASE, FALSE, <<>>) EXCEPT
        !.requests = @ + Cardinality({k \in DOMAIN resps : resps[k] = "429"})]

\* _do_request_with_retry, the answers carrying no Retry-After header
DoRequestWithRetry(resps) == RetryLoop(resps, 0, BACKOFF_BASE, FALSE, <<>>)

\* except httpx.HTTPError: the two exceptions the callers turn into success = False
IsHTTPError(outcome) == outcome \in {"HTTPStatusError", "TimeoutException"}

\* what a cluster operation hands to its caller
ClientResult(resps) ==
    LET o == DoRequestWithRetry(resps).outcome
    IN  IF o = "response" THEN "ok" ELSE IF IsHTTPError(o) THEN "failed" ELSE "raised"

\* the provider answers 2xx to a request on a resource only while it has the resource
CanAnswer(resps, exists) == exists \/ \A k \in DOMAIN resps : resps[k] # "2xx"

EndpointOf(id) == "https://k8s-" \o ToString(id)

-----------------------------------------------------------------------------
(* Pass A: notify_and_check_instances *)

\* queue: the rest of the list in the loop; cur: the log of the item at an await, or at
\* the end of its iteration (pc = "next"); done: the items that have ended in this run
PaIdle == [pc |-> "idle", queue |-> <<>>, cur |-> None, done |-> {}]

ClassifyStrict(time_left) ==
    IF 0 < time_left /\ time_left < WarnWindow THEN "warn"
    ELSE IF time_left < 0 THEN "delete"
    ELSE "none"

\* if 0 < time_left <= 86400: ... elif time_left <= 0: ...
Classify(time_left) ==
    IF 0 < time_left /\ time_left <= WarnWindow THEN "warn"
    ELSE IF time_left <= 0 THEN "delete"
    ELSE "none"

\* datetime.strptime(s, "%Y-%m-%d %H:%M:%S") returns: the time of day is one of a day
Parsable(s) == 0 <= s[2] /\ s[2] < SecondsPerDay

\* an item whose date is read leniently, a time of day past the day's end carried over
ItemParsedAnyway(kind, it, t) ==
    LET left == StrPTime(it.row.expiration_date) - t
    IN  [kind |-> kind, id |-> it.id, status |-> IF kind = "k8s" THEN it.row.status ELSE "",
         left |-> left, act |-> Classify(left),
         snap |-> "-", del |-> "-", notes |-> {}]

\* the log of one item of a sweep; time_left from the row as it was read; a date that
\* strptime rejects (ValueError) ends the iteration: logger.error, continue
Item(kind, it, t) ==
    LET ok == Parsable(it.row.expiration_date)
        left == IF ok THEN StrPTime(it.row.expiration_date) - t ELSE 0
    IN  [kind |-> kind, id |-> it.id, status |-> IF kind = "k8s" THEN it.row.status ELSE "",
         left |-> left, act |-> IF ok THEN Classify(left) ELSE "unparsable",
         snap |-> "-", del |-> "-", notes |-> {}]

\* an item that has ended: ok if nothing in it failed
Ended(item) ==
    [kind |-> item.kind, id |-> item.id, act |-> item.act,
     ok |-> /\ item.del \notin {"failed", "raised"}
            /\ item.snap \in {"-", "completed"}
            /\ item.act = "warn" => item.notes # {}]

\* the position after the classification of item: an await, or the end of the iteration
Dispatch(item, q, done, at_warn, at_delete) ==
    [pc |-> CASE item.act = "warn" -> at_warn
              [] item.act = "delete" -> at_delete
              [] OTHER -> "next",
     queue |-> q, cur |-> item,
     done |-> IF item.act \in {"warn", "delete"} THEN done ELSE done \cup {Ended(item)}]

\* the cluster loop, from its head to the next await or to the end of the job
K8sLoop(q, done, t) ==
    IF q = <<>> THEN PaIdle
    ELSE Dispatch(Item("k8s", Head(q), t), Tail(q), done, "k8s_warn", "k8s_delete")

\* the droplet loop, from its head to the next await; after it the cluster query
VmLoop(q, done, t, ctbl) ==
    IF q = <<>> THEN K8sLoop(GetExpiringK8sClusters(ctbl, t), done, t)
    ELSE Dispatch(Item("vm", Head(q), t), Tail(q), done, "vm_warn", "vm_snap")

\* the iteration of the current item ends, with cur as its log
EndItem(p, cur) == [p EXCEPT !.pc = "next", !.cur = cur, !.done = @ \cup {Ended(cur)}]

\* a job that ends at the first item that failed
PaNextAbort ==
    /\ pa.pc = "next"
    /\ pa' = IF ~ Ended(pa.cur).ok THEN PaIdle
             ELSE IF pa.cur.kind = "vm" THEN VmLoop(pa.queue, pa.done, now, clusters)
             ELSE K8sLoop(pa.queue, pa.done, now)
    /\ UNCHANGED <<now, instances, clusters, doDroplets, doClusters, pb, calls, last, cache>>

\* the loop goes on with the next item; after the last droplet, the cluster query
PaNext ==
    /\ pa.pc = "next"
    /\ pa' = IF pa.cur.kind = "vm" THEN VmLoop(pa.queue, pa.done, now, clusters)
             ELSE K8sLoop(pa.queue, pa.done, now)
    /\ UNCHANGED <<now, instances, clusters, doDroplets, doClusters, pb, calls, last, cache>>

\* the job starts: expiring_instances = get_expiring_instances()
PassAStart ==
    /\ pa.pc = "idle"
    /\ pa' = VmLoop(GetExpiringInstances(instances, now), {}, now, clusters)
    /\ UNCHANGED <<now, instances, clusters, doDroplets, doClusters, pb, calls, last, cache>>

\* await user_chat.send_message(...) of either loop; a failure is caught and logged
PaWarn(sent) ==
    /\ pa.pc \in {"vm_warn", "k8s_warn"}
    /\ LET cur == [pa.cur EXCEPT !.notes = IF sent THEN @ \cup {"warning"} ELSE @]
       IN  pa' = EndItem(pa, cur)
    /\ UNCHANGED <<now, instances, clusters, doDroplets, doClusters, pb, calls, last, cache>>

SnapshotResults == {"ok", "failed", "raised"}

\* a snapshot step whose failure ends the item
PaSnapshotAbort(res) ==
    /\ pa.pc = "vm_snap"
    /\ pa' = IF res = "ok" THEN [pa EXCEPT !.pc = "vm_wait", !.cur.snap = "started"]
             ELSE EndItem(pa, [pa.cur EXCEPT !.snap = "create_" \o res])
    /\ UNCHANGED <<now, instances, clusters, doDroplets, doClusters, pb, calls, last, cache>>

\* a snapshot step that goes on to the deletion while the snapshot is being made
PaSnapshotNoWait(res) ==
    /\ pa.pc = "vm_snap"
    /\ pa' = [pa EXCEPT !.pc = "vm_delete",
                        !.cur.snap = IF res = "ok" THEN "started" ELSE "create_" \o res]
    /\ UNCHANGED <<now, instances, clusters, doDroplets, doClusters, pb, calls, last, cache>>

\* await create_snapshot(...): started, provider error, or an exception of the step
PaSnapshot(res) ==
    /\ pa.pc = "vm_snap"
    /\ pa' = [pa EXCEPT !.pc = IF res = "ok" THEN "vm_wait" ELSE "vm_delete",
                        !.cur.snap = IF res = "ok" THEN "started" ELSE "create_" \o res]
    /\ UNCHANGED <<now, instances, clusters, doDroplets, doClusters, pb, calls, last, cache>>

WaitResults == {"completed", "errored", "Timeout", "HTTPError", "raised"}

\* await wait_for_action(...), then send_notification("snapshot_created") on success
PaWaitAction(res) ==
    /\ pa.pc = "vm_wait"
    /\ pa' = [pa EXCEPT !.pc = "vm_delete",
                        !.cur.snap = res,
                        !.cur.notes = IF res = "completed" THEN @ \cup {"snapshot_created"} ELSE @]
    /\ UNCHANGED <<now, instances, clusters, doDroplets, doClusters, pb, calls, last, cache>>

DeleteResults == {"ok", "failed"}

\* delete_droplet: the provider request, raise_for_status, then delete_instance
DeleteDroplet(id, res) ==
    /\ res = "ok" => doDroplets[id] = "active"
    /\ doDroplets' = IF res = "ok" THEN [doDroplets EXCEPT ![id] = "gone"] ELSE doDroplets
    /\ instances' = IF res = "ok" THEN DeleteInstance(instances, id).tbl ELSE instances

\* a deletion that reads the row again and leaves a droplet that is no longer expired
PaDeleteVmRereading(res) ==
    /\ pa.pc = "vm_delete"
    /\ LET row == GetInstanceById(instances, pa.cur.id)
           skip == row # None /\ StrPTime(row.expiration_date) > now
       IN  IF skip
           THEN /\ pa' = EndItem(pa, pa.cur)
                /\ UNCHANGED <<instances, doDroplets>>
           ELSE /\ DeleteDroplet(pa.cur.id, res)
                /\ pa' = EndItem(pa, [pa.cur EXCEPT !.del = res,
                                                    !.notes = IF res = "ok"
                                                              THEN @ \cup {"auto_deleted"}
                                                              ELSE @])
    /\ UNCHANGED <<now, clusters, doClusters, pb, calls, last, cache>>

\* await delete_droplet(...), then send_notification("auto_deleted") on success
PaDeleteVm(res) ==
    /\ pa.pc = "vm_delete"
    /\ DeleteDroplet(pa.cur.id, res)
    /\ LET cur == [pa.cur EXCEPT !.del = res,
                                 !.notes = IF res = "ok" THEN @ \cup {"auto_deleted"} ELSE @]
       IN  pa' = EndItem(pa, cur)
    /\ UNCHANGED <<now, clusters, doClusters, pb, calls, last, cache>>

\* delete_k8s_cluster: the provider request with retries, then the row's removal
DeleteK8sCluster(id, resps) ==
    /\ CanAnswer(resps, doClusters[id] \notin {"none", "gone"})
    /\ doClusters' = IF ClientResult(resps) = "ok" THEN [doClusters EXCEPT ![id] = "gone"]
                     ELSE doClusters
    /\ clusters' = IF ClientResult(resps) = "ok" THEN DbDeleteK8sCluster(clusters, id).tbl
                   ELSE clusters

\* await delete_k8s_cluster(...), then send_k8s_notification("auto_deleted") on success;
\* an exception of the call ends the item in the loop's except
PaDeleteK8s(resps) ==
    /\ pa.pc = "k8s_delete"
    /\ DeleteK8sCluster(pa.cur.id, resps)
    /\ LET res == ClientResult(resps)
           cur == [pa.cur EXCEPT !.del = res,
                                 !.notes = IF res = "ok" THEN @ \cup {"auto_deleted"} ELSE @]
       IN  pa' = EndItem(pa, cur)
    /\ UNCHANGED <<now, instances, doDroplets, pb, calls, last, cache>>

-----------------------------------------------------------------------------
(* Pass B: poll_provisioning_clusters *)

\* errored: the clusters stored as errored when the job started
PbIdle == [pc |-> "idle", queue |-> <<>>, cur |-> None, done |-> {}, errored |-> {}]

ErroredIds(tbl) == {i \in DOMAIN tbl : tbl[i] # NoRow /\ tbl[i].status = "errored"}

\* the log of one cluster of a poll
PollItem(it) ==
    [id |-> it.id, live |-> "-", updated |-> FALSE, stored |-> "-", endpoint |-> "-",
     dm |-> "-", notes |-> {}]

\* the loop, from its head to the await of get_k8s_cluster or to the end of the job
PbLoop(p) ==
    IF p.queue = <<>> THEN PbIdle
    ELSE [p EXCEPT !.pc = "get", !.queue = Tail(p.queue), !.cur = PollItem(Head(p.queue))]

\* a job that ends at the first cluster whose status query failed
PbEndAbort(p, cur) ==
    IF cur.live \in {"failed", "raised"} THEN PbIdle
    ELSE [p EXCEPT !.pc = "next", !.cur = cur, !.done = @ \cup {cur.id}]

\* the iteration of the current cluster ends, with cur as its log
PbEnd(p, cur) == [p EXCEPT !.pc = "next", !.cur = cur, !.done = @ \cup {cur.id}]

\* a job that takes every cluster of the store, whatever its status
PassBStartAll ==
    /\ pb.pc = "idle"
    /\ pb' = PbLoop([PbIdle EXCEPT
                        !.queue = LET ids == SeqOfIds({i \in ClusterIds : clusters[i] # NoRow})
                                  IN  [k \in 1..Len(ids) |-> [id |-> ids[k], row |-> clusters[ids[k]]]],
                        !.errored = ErroredIds(clusters)])
    /\ UNCHANGED <<now, instances, clusters, doDroplets, doClusters, pa, calls, last, cache>>

\* the job starts: provisioning_clusters = get_provisioning_k8s_clusters()
PassBStart ==
    /\ pb.pc = "idle"
    /\ pb' = PbLoop([PbIdle EXCEPT !.queue = GetProvisioningK8sClusters(clusters),
                                   !.errored = ErroredIds(clusters)])
    /\ UNCHANGED <<now, instances, clusters, doDroplets, doClusters, pa, calls, last, cache>>

\* the loop goes on with the next cluster
PbNext ==
    /\ pb.pc = "next"
    /\ pb' = PbLoop(pb)
    /\ UNCHANGED <<now, instances, clusters, doDroplets, doClusters, pa, calls, last, cache>>

\* the endpoint the provider reports for a cluster in state st
LiveEndpoint(id, st) == IF st \in {"running", "degraded"} THEN EndpointOf(id) ELSE ""

\* a ready line that never has the degraded note
ReadyTextPlain(new_state) == "ready"

\* text of the message to the creator: the ready line, with the degraded note or without
ReadyText(new_state) == IF new_state = "degraded" THEN "ready+degraded" ELSE "ready"

\* await get_k8s_cluster(...) returns, and the loop body up to its next await
PbGet(resps, sent) ==
    /\ pb.pc = "get"
    /\ LET id == pb.cur.id
           res == ClientResult(resps)
           new_state == doClusters[id]
           endpoint == LiveEndpoint(id, new_state)
       IN  /\ CanAnswer(resps, doClusters[id] \notin {"none", "gone"})
           /\ IF res # "ok"
              THEN /\ pb' = PbEnd(pb, [pb.cur EXCEPT !.live = res])
                   /\ clusters' = clusters
              ELSE IF new_state \in {"running", "degraded"}
              THEN LET upd == UpdateK8sClusterStatus(clusters, id, "running", endpoint)
                       cur == [pb.cur EXCEPT !.live = new_state, !.updated = upd.ret,
                                  !.stored = IF upd.ret THEN upd.tbl[id].status ELSE "-",
                                  !.endpoint = IF upd.ret THEN upd.tbl[id].endpoint ELSE "-"]
                   IN  /\ clusters' = upd.tbl
                       /\ pb' = IF upd.ret THEN [pb EXCEPT !.pc = "kubeconfig", !.cur = cur]
                                ELSE PbEnd(pb, cur)
              ELSE IF new_state = "errored"
              THEN LET upd == UpdateK8sClusterStatus(clusters, id, "errored", KeepEndpoint)
                       cur == [pb.cur EXCEPT !.live = new_state, !.updated = upd.ret,
                                  !.stored = IF upd.ret THEN upd.tbl[id].status ELSE "-",
                                  !.endpoint = IF upd.ret THEN upd.tbl[id].endpoint ELSE "-",
                                  !.dm = IF sent THEN "errored" ELSE "-",
                                  !.notes = {"errored"}]
                   IN  /\ clusters' = upd.tbl
                       /\ pb' = PbEnd(pb, cur)
              ELSE /\ pb' = PbEnd(pb, [pb.cur EXCEPT !.live = new_state])
                   /\ clusters' = clusters
    /\ UNCHANGED <<now, instances, doDroplets, doClusters, pa, calls, last, cache>>

\* await get_kubeconfig(...) returns; then the message, the file and the ready event;
\* an exception of the call ends the item in the loop's except
PbKubeconfig(resps, sent) ==
    /\ pb.pc = "kubeconfig"
    /\ CanAnswer(resps, doClusters[pb.cur.id] \notin {"none", "gone"})
    /\ LET res == ClientResult(resps)
           cur == IF res = "raised" THEN pb.cur
                  ELSE [pb.cur EXCEPT !.dm = IF sent THEN ReadyText(pb.cur.live) ELSE "-",
                                      !.notes = {"ready"} \cup
                                                (IF res = "ok" THEN {"kubeconfig"} ELSE {})]
       IN  pb' = PbEnd(pb, cur)
    /\ UNCHANGED <<now, instances, clusters, doDroplets, doClusters, pa, calls, last, cache>>

\* the provider finishes provisioning a cluster
ProviderProgress(id, st) ==
    /\ doClusters[id] = "provisioning"
    /\ st \in {"running", "degraded", "errored"}
    /\ doClusters' = [doClusters EXCEPT ![id] = st]
    /\ UNCHANGED <<now, instances, clusters, doDroplets, pa, pb, calls, last, cache>>

-----------------------------------------------------------------------------
(* Time and the handlers of the users' requests *)

\* a run of a job is over within the day: repeating jobs, half a day apart, with their
\* waits bounded by timeouts of minutes
Tick(t) ==
    /\ t \in Instants
    /\ t > now
    /\ (pa.pc # "idle" \/ pb.pc # "idle") => t \div SecondsPerDay = now \div SecondsPerDay
    /\ now' = t
    /\ UNCHANGED <<instances, clusters, doDroplets, doClusters, pa, pb, calls, last, cache>>

\* the id the provider gives to its next resource
FreshId(do) == CHOOSE i \in DOMAIN do : do[i] = "none" /\ \A j \in DOMAIN do : do[j] = "none" => i <= j

CreateOutcomes == {"post_failed", "poll_failed", "ok"}

\* create_droplet on the provider and the store: POST, the polling for an address,
\* save_instance
DropletCreated(u, d, outcome) ==
    /\ \E i \in DropletIds : doDroplets[i] = "none"
    /\ LET id == FreshId(doDroplets)
       IN  /\ doDroplets' = IF outcome = "post_failed" THEN doDroplets
                            ELSE [doDroplets EXCEPT ![id] = "active"]
           /\ instances' = IF outcome = "ok"
                           THEN SaveInstance(instances, id, StrFTime(PlusDays(now, d)), u)
                           ELSE instances

\* create_droplet, by its outcome
CreateDroplet(u, d, outcome) ==
    /\ DropletCreated(u, d, outcome)
    /\ UNCHANGED <<now, clusters, doClusters, pa, pb, calls, last, cache>>

\* handle_extend: the row, the owner check, extend_instance_expiration
HandleExtend(id, days, u) ==
    /\ GetInstanceById(instances, id) # None
    /\ GetInstanceById(instances, id).creator_id = u
    /\ WithinCap(instances, id, days, MaxDay + 2)
    /\ instances' = ExtendInstanceExpiration(instances, id, days, now).tbl
    /\ UNCHANGED <<now, clusters, doDroplets, doClusters, pa, pb, calls, last, cache>>

\* handle_delete: the row, the owner check, delete_droplet
HandleDelete(id, u, res) ==
    /\ GetInstanceById(instances, id) # None
    /\ GetInstanceById(instances, id).creator_id = u
    /\ DeleteDroplet(id, res)
    /\ UNCHANGED <<now, clusters, doClusters, pa, pb, calls, last, cache>>

\* handle_k8s_extend: the row, the owner check, extend_k8s_cluster_expiration
HandleK8sExtend(id, days, u) ==
    /\ GetK8sClusterById(clusters, id) # None
    /\ GetK8sClusterById(clusters, id).creator_id = u
    /\ WithinCap(clusters, id, days, MaxDay + 2)
    /\ clusters' = ExtendK8sClusterExpiration(clusters, id, days).tbl
    /\ UNCHANGED <<now, instances, doDroplets, doClusters, pa, pb, calls, last, cache>>

\* handle_k8s_delete: the row, the owner check, delete_k8s_cluster
HandleK8sDelete(id, u, resps) ==
    /\ GetK8sClusterById(clusters, id) # None
    /\ GetK8sClusterById(clusters, id).creator_id = u
    /\ DeleteK8sCluster(id, resps)
    /\ UNCHANGED <<now, instances, doDroplets, pa, pb, calls, last, cache>>

-----------------------------------------------------------------------------
(* create_k8s_cluster, one call per slot *)

CallIdle == [pc |-> "idle"]

\* the state of the cluster in the provider's answer to the create request
CreateStates == {"provisioning", "running"}

\* the result create_k8s_cluster returns, waiting for the handler's reply to the user
Result(u, name, ok, cluster_id, requests) ==
    [pc |-> "reply", user |-> u, name |-> name, success |-> ok, cluster_id |-> cluster_id,
     requests |-> requests]

\* a call that goes to the provider without looking for the name
KcStartNoCheck(s, u, name, d) ==
    /\ calls[s].pc = "idle"
    /\ calls' = [calls EXCEPT ![s] = [pc |-> "post", user |-> u, name |-> name,
                                      exp |-> StrFTime(PlusDays(now, d))]]
    /\ UNCHANGED <<now, instances, clusters, doDroplets, doClusters, pa, pb, last, cache>>

\* the call up to its await: the name check, the expiration date, the request
KcStart(s, u, name, d) ==
    /\ calls[s].pc = "idle"
    /\ LET existing == GetK8sClusterByName(clusters, name, u)
       IN  calls' = [calls EXCEPT ![s] =
                        IF existing # None THEN Result(u, name, FALSE, existing.cluster_id, 0)
                        ELSE [pc |-> "post", user |-> u, name |-> name,
                              exp |-> StrFTime(PlusDays(now, d))]]
    /\ UNCHANGED <<now, instances, clusters, doDroplets, doClusters, pa, pb, last, cache>>

\* the request returns: save_k8s_cluster with the reported state, or the failure
KcRespond(s, resps, st) ==
    /\ calls[s].pc = "post"
    /\ CanAnswer(resps, \E i \in ClusterIds : doClusters[i] = "none")
    /\ LET c == calls[s]
           res == ClientResult(resps)
           n == DoRequestWithRetry(resps).requests
       IN  IF res = "ok"
           THEN LET id == FreshId(doClusters)
                IN  /\ doClusters' = [doClusters EXCEPT ![id] = st]
                    /\ clusters' = SaveK8sCluster(clusters, id, c.name, c.user, st,
                                                  LiveEndpoint(id, st), c.exp)
                    /\ calls' = [calls EXCEPT ![s] = Result(c.user, c.name, TRUE, id, n)]
           ELSE /\ UNCHANGED <<doClusters, clusters>>
                /\ calls' = [calls EXCEPT ![s] =
                                IF res = "failed" THEN Result(c.user, c.name, FALSE, 0, n)
                                ELSE CallIdle]
    /\ UNCHANGED <<now, instances, doDroplets, pa, pb, last, cache>>

\* _create_k8s_cluster_and_respond: the reply to the user, the end of the conversation
KcReply(s) ==
    /\ calls[s].pc = "reply"
    /\ calls' = [calls EXCEPT ![s] = CallIdle]
    /\ UNCHANGED <<now, instances, clusters, doDroplets, doClusters, pa, pb, last, cache>>

-----------------------------------------------------------------------------
(* The store's interface under every sequence of calls *)

StSaveInstance(id, d, u) ==
    /\ instances[id] = NoRow
    /\ instances' = SaveInstance(instances, id, StrFTime(PlusDays(now, d)), u)
    /\ last' = Call("save_instance", id, d, u, "", TRUE, None, None)
    /\ UNCHANGED <<now, clusters, doDroplets, doClusters, pa, pb, calls, cache>>

StExtendInstance(id, days) ==
    /\ WithinCap(instances, id, days, MaxExtDays)
    /\ LET r == ExtendInstanceExpiration(instances, id, days, now)
       IN  /\ instances' = r.tbl
           /\ last' = Call("extend_instance", id, days, 0, "", r.ret # None, r.ret,
                           FromOf("extend_instance", id, days, ExpOf(instances, id)))
    /\ UNCHANGED <<now, clusters, doDroplets, doClusters, pa, pb, calls, cache>>

StDeleteInstance(id) ==
    /\ LET r == DeleteInstance(instances, id)
       IN  /\ instances' = r.tbl
           /\ last' = Call("delete_instance", id, 0, 0, "", r.ret, None, None)
    /\ UNCHANGED <<now, clusters, doDroplets, doClusters, pa, pb, calls, cache>>

\* _size_cache and _k8s_options_cache = {"data": None, "timestamp": 0}
EmptyCaches == [c \in {"sizes", "k8s_options"} |-> [data |-> None, timestamp |-> 0]]

InitAt(t) ==
    /\ now = t
    /\ instances = [i \in DropletIds |-> NoRow]
    /\ clusters = [i \in ClusterIds |-> NoRow]
    /\ doDroplets = [i \in DropletIds |-> "none"]
    /\ doClusters = [i \in ClusterIds |-> "none"]
    /\ pa = PaIdle
    /\ pb = PbIdle
    /\ calls = [s \in Slots |-> CallIdle]
    /\ last = NoCall
    /\ cache = EmptyCaches

StoreInit == \E t \in Offsets : InitAt(t)

StoreNext ==
    \/ \E id \in DropletIds, d \in Durations, u \in Users : StSaveInstance(id, d, u)
    \/ \E id \in DropletIds \cup {MaxDroplets + 1}, days \in ExtendDays : StExtendInstance(id, days)
    \/ \E id \in DropletIds : StDeleteInstance(id)

SpecStore == StoreInit /\ [][StoreNext]_vars

-----------------------------------------------------------------------------
(* The sweep over droplets and clusters, with the users' requests beside it *)

Init == InitAt(0)

\* one user with the shortest duration and the shortest extension
Owner == CHOOSE u \in Users : \A v \in Users : u <= v

SweepNext ==
    \/ \E t \in Instants : Tick(t)
    \/ \E o \in CreateOutcomes : CreateDroplet(Owner, 1, o)
    \/ \E id \in DropletIds : HandleExtend(id, 3, Owner)
    \/ \E id \in DropletIds, res \in DeleteResults : HandleDelete(id, Owner, res)
    \/ KcStart(1, Owner, "alpha", 1)
    \/ \E resps \in Answers : KcRespond(1, resps, "provisioning")
    \/ KcReply(1)
    \/ PassAStart
    \/ PaNext
    \/ \E sent \in BOOLEAN : PaWarn(sent)
    \/ \E res \in SnapshotResults : PaSnapshot(res)
    \/ \E res \in WaitResults : PaWaitAction(res)
    \/ \E res \in DeleteResults : PaDeleteVm(res)
    \/ \E resps \in Answers : PaDeleteK8s(resps)

SpecSweep == Init /\ [][SweepNext]_vars

-----------------------------------------------------------------------------
(* Clusters: creation calls in flight together *)

CreateNext ==
    \/ \E t \in Instants : Tick(t)
    \/ \E s \in Slots, name \in ClusterNames : KcStart(s, Owner, name, 1)
    \/ \E s \in Slots, resps \in Answers, st \in CreateStates : KcRespond(s, resps, st)
    \/ \E s \in Slots : KcReply(s)
    \/ \E id \in ClusterIds : HandleK8sExtend(id, 3, Owner)
    \/ \E id \in ClusterIds, resps \in Answers : HandleK8sDelete(id, Owner, resps)

SpecCreate == Init /\ [][CreateNext]_vars

-----------------------------------------------------------------------------
(* Clusters: the poll of the provisioning clusters beside the sweep, day by day *)

PollNext ==
    \/ \E d \in 0..MaxDay : Tick(d * SecondsPerDay)
    \/ \E name \in ClusterNames : KcStart(1, Owner, name, 1)
    \/ \E resps \in Answers : KcRespond(1, resps, "provisioning")
    \/ KcReply(1)
    \/ \E id \in ClusterIds, st \in {"running", "degraded", "errored"} : ProviderProgress(id, st)
    \/ PassBStart
    \/ \E resps \in Answers, sent \in BOOLEAN : PbGet(resps, sent)
    \/ \E resps \in Answers, sent \in BOOLEAN : PbKubeconfig(resps, sent)
    \/ PbNext
    \/ PassAStart
    \/ PaNext
    \/ \E sent \in BOOLEAN : PaWarn(sent)
    \/ \E resps \in Answers : PaDeleteK8s(resps)

SpecPoll == Init /\ [][PollNext]_vars

-----------------------------------------------------------------------------
(* Claims about the sweep *)

\* C1: in the sweep, for droplets and for clusters, a resource with
\* 0 < secondsLeft <= 86400 is warned and not deleted, a resource with secondsLeft <= 0
\* takes the delete path and is not warned, and a resource with secondsLeft > 86400
\* gets no action; secondsLeft = 86400 warns and secondsLeft = 0 deletes.
C1_Classification ==
    pa.cur # None =>
        LET c == pa.cur
        IN  /\ (0 < c.left /\ c.left <= 86400) =>
                  /\ c.act = "warn"
                  /\ pa.pc \in {"vm_warn", "k8s_warn", "next"}
                  /\ c.snap = "-" /\ c.del = "-" /\ c.notes \subseteq {"warning"}
            /\ c.left <= 0 =>
                  /\ c.act = "delete"
                  /\ pa.pc \in {"vm_snap", "vm_wait", "vm_delete", "k8s_delete", "next"}
                  /\ "warning" \notin c.notes
                  /\ pa.pc = "next" => c.del # "-"
            /\ c.left > 86400 =>
                  /\ c.act = "none"
                  /\ pa.pc = "next"
                  /\ c.snap = "-" /\ c.del = "-" /\ c.notes = {}

\* a droplet warned at 86400 seconds, then a cluster deleted at 0 seconds, in one sweep
C1_Witness ==
    /\ pa.pc = "next"
    /\ pa.cur.kind = "k8s" /\ pa.cur.left = 0 /\ pa.cur.del = "ok"
    /\ \E d \in pa.done :
          /\ d.kind = "vm" /\ d.act = "warn" /\ d.ok
          /\ instances[d.id] # NoRow
          /\ StrPTime(instances[d.id].expiration_date) - now = 86400

SnapshotFailures == {"create_failed", "create_raised", "errored", "Timeout", "HTTPError", "raised"}

\* C2: for a droplet due for deletion, when the snapshot's creation returns an error,
\* its wait ends errored or timed out, or the snapshot step raises, the sweep still
\* issues the provider delete for that droplet; if the delete succeeds auto_deleted is
\* emitted; no snapshot_created is emitted for that droplet.
C2_SnapshotNeverBlocks ==
    (pa.cur # None /\ pa.cur.kind = "vm" /\ pa.cur.snap \in SnapshotFailures) =>
        /\ pa.pc \in {"vm_delete", "next"}
        /\ pa.pc = "next" => pa.cur.del \in {"ok", "failed"}
        /\ pa.cur.del = "ok" => "auto_deleted" \in pa.cur.notes
        /\ "snapshot_created" \notin pa.cur.notes

C2_Witness ==
    /\ pa.pc = "next"
    /\ pa.cur.kind = "vm"
    /\ pa.cur.snap = "create_failed"
    /\ pa.cur.del = "ok"
    /\ pa.cur.notes = {"auto_deleted"}
    /\ instances[pa.cur.id] = NoRow

\* the items a run of the sweep has taken or still holds
Covered(p) ==
    {<<d.kind, d.id>> : d \in p.done}
    \cup (IF p.cur = None THEN {}
          ELSE {<<p.cur.kind, p.cur.id>>}
               \cup {<<p.cur.kind, p.queue[k].id>> : k \in DOMAIN p.queue})

DueDroplets(t) ==
    {<<"vm", i>> : i \in {j \in DropletIds :
        instances[j] # NoRow /\ StrPTime(instances[j].expiration_date) - t <= 86400}}

DueClusters(t) ==
    {<<"k8s", i>> : i \in {j \in ClusterIds :
        clusters[j] # NoRow /\ StrPTime(clusters[j].expiration_date) - t <= 86400}}

\* C9: a failure or an exception in one resource of the due set never keeps the sweep
\* from every remaining droplet of the due set and then from every due cluster: no
\* step drops an item, the cluster query follows the last droplet, and the job ends
\* only at the end of the list.
C9_PerItemIsolation ==
    [][/\ (pa.pc # "idle" /\ pa'.pc # "idle") => Covered(pa) \subseteq Covered(pa')
       /\ (pa.pc = "idle" /\ pa'.pc # "idle") => DueDroplets(now) \subseteq Covered(pa')
       /\ (pa.pc = "idle" /\ pa'.pc = "idle") => pa' = pa
       /\ (/\ pa.pc = "idle" \/ (pa.pc = "next" /\ pa.cur.kind = "vm")
           /\ pa'.pc # "idle" /\ pa'.cur.kind = "k8s")
             => DueClusters(now) \subseteq Covered(pa')
       /\ (pa.pc # "idle" /\ pa'.pc = "idle") =>
             /\ pa.pc = "next" /\ pa.queue = <<>>
             /\ pa.cur.kind = "vm" => DueClusters(now) = {}
      ]_vars

\* a droplet's item failed, and the sweep has gone on to delete a cluster
C9_Witness ==
    /\ pa.pc = "next"
    /\ pa.cur.kind = "k8s" /\ pa.cur.del = "ok"
    /\ \E d \in pa.done : d.kind = "vm" /\ ~ d.ok

\* the ids in the due set of a sweep that starts at t
DueSet(itbl, ctbl, t) ==
    {<<"vm", GetExpiringInstances(itbl, t)[k].id>> : k \in DOMAIN GetExpiringInstances(itbl, t)}
    \cup {<<"k8s", GetExpiringK8sClusters(ctbl, t)[k].id>> :
             k \in DOMAIN GetExpiringK8sClusters(ctbl, t)}

\* C10: a row is removed by a delete only after the provider accepted it: when the
\* provider's delete fails, delete_droplet / delete_k8s_cluster return success = False,
\* the row stays unchanged, no auto_deleted is emitted, and the resource, its
\* expiration still passed, is in the due set of a sweep again.
C10_RowRemovedOnlyAfterAccept ==
    [][/\ \A i \in DropletIds : (instances[i] # NoRow /\ instances'[i] = NoRow) =>
             (doDroplets[i] = "active" /\ doDroplets'[i] = "gone")
       /\ \A i \in ClusterIds : (clusters[i] # NoRow /\ clusters'[i] = NoRow) =>
             (doClusters[i] \notin {"none", "gone"} /\ doClusters'[i] = "gone")
       /\ (pa.pc \in {"vm_delete", "k8s_delete"} /\ pa'.pc = "next") =>
             /\ pa'.cur.del \in {"ok", "failed"}
             /\ pa'.cur.del # "ok" =>
                   /\ instances' = instances /\ clusters' = clusters
                   /\ "auto_deleted" \notin pa'.cur.notes
                   /\ LET tbl == IF pa'.cur.kind = "vm" THEN instances' ELSE clusters'
                          id == pa'.cur.id
                      IN  (tbl[id] # NoRow /\ StrPTime(tbl[id].expiration_date) <= now) =>
                              <<pa'.cur.kind, id>> \in DueSet(instances', clusters', now)
      ]_vars

-----------------------------------------------------------------------------
(* Claims about the poll and about the creation of clusters *)

\* C3: once a cluster is stored as errored, a later run of the poll makes no provider
\* query, no store update and no notification for it: it is not among the clusters
\* the run takes; the sweep still takes the delete path for it once its expiration
\* has passed.
C3_ErroredTerminal ==
    /\ \A id \in pb.errored :
          /\ id \notin pb.done
          /\ pb.cur # None => pb.cur.id # id
          /\ \A k \in DOMAIN pb.queue : pb.queue[k].id # id
          /\ clusters[id] # NoRow => clusters[id].status = "errored"
    /\ (pa.cur # None /\ pa.cur.kind = "k8s" /\ pa.cur.status = "errored" /\ pa.cur.left <= 0) =>
          /\ pa.pc \in {"k8s_delete", "next"}
          /\ pa.pc = "next" => pa.cur.del # "-"

\* a run of the poll that began beside an errored cluster has polled another one,
\* while the sweep has deleted the errored cluster
C3_Witness ==
    /\ pb.errored # {}
    /\ pb.pc = "next"
    /\ pa.pc = "next"
    /\ pa.cur.status = "errored" /\ pa.cur.del = "ok"
    /\ pa.cur.id \in pb.errored

\* C4: when the poll finds a provisioning cluster whose live status is degraded, the
\* stored status becomes running, never degraded, the stored endpoint is the
\* provider's endpoint, and the message to the creator carries the degraded note; a
\* live status of running does the same without the note.
C4_DegradedReportsReady ==
    /\ (pb.cur # None /\ pb.cur.live \in {"running", "degraded"} /\ pb.cur.updated) =>
          /\ pb.cur.stored = "running"
          /\ pb.cur.endpoint = "https://k8s-" \o ToString(pb.cur.id)
          /\ pb.cur.dm \in {"-", IF pb.cur.live = "degraded" THEN "ready+degraded" ELSE "ready"}
          /\ pb.pc \in {"kubeconfig", "next"}
    /\ \A id \in ClusterIds : clusters[id] # NoRow => clusters[id].status # "degraded"

C4_Witness ==
    /\ pb.pc = "next"
    /\ pb.cur.live = "degraded"
    /\ pb.cur.dm = "ready+degraded"
    /\ clusters[pb.cur.id] # NoRow
    /\ clusters[pb.cur.id].status = "running"
    /\ clusters[pb.cur.id].endpoint # ""

\* the creator's clusters of that name in the store, deleted ones aside
SameName(u, name) ==
    {i \in ClusterIds : /\ clusters[i] # NoRow
                        /\ clusters[i].creator_id = u
                        /\ clusters[i].cluster_name = name
                        /\ clusters[i].status # "deleted"}

\* C5: create_k8s_cluster called with a name for which the same creator has a
\* non-deleted cluster in the store returns success = False with the existing
\* cluster's id, makes no request to the provider and saves no row.
C5_IdempotentCreate ==
    [][\A s \in Slots :
          (/\ calls[s].pc = "idle" /\ calls'[s].pc # "idle"
           /\ SameName(calls'[s].user, calls'[s].name) # {}) =>
              /\ calls'[s].pc = "reply"
              /\ ~ calls'[s].success
              /\ calls'[s].cluster_id \in SameName(calls'[s].user, calls'[s].name)
              /\ calls'[s].requests = 0
              /\ clusters' = clusters
              /\ doClusters' = doClusters
      ]_vars

C5_Witness ==
    \E s \in Slots :
        /\ calls[s].pc = "reply"
        /\ ~ calls[s].success
        /\ calls[s].requests = 0
        /\ calls[s].cluster_id \in SameName(calls[s].user, calls[s].name)

-----------------------------------------------------------------------------
(* Claims about the store *)

\* C7: each successful extend(id, days) sets the stored expiration to the stored
\* expiration plus exactly `days` days and returns that value; two calls with the same
\* (id, days) shift it by 2 * days; the shift is from the stored expiration, not from
\* the current time.
C7_ExtendAdditive ==
    (last.op = "extend_instance" /\ last.ret # None) =>
        /\ ExpOf(instances, last.id) = last.ret
        /\ StrPTime(last.ret) = StrPTime(last.from) + last.n * last.days * SecondsPerDay

C7_Witness ==
    /\ last.op = "extend_instance"
    /\ last.ret # None
    /\ last.n = 2
    /\ StrPTime(last.ret) # PlusDays(now, last.days)

\* C8: extend on an id that has no row, never created or already deleted, returns
\* None every time, creates no row and leaves every other row unchanged.
C8_ExtendMissing ==
    [][(/\ last'.seq # last.seq
        /\ last'.op = "extend_instance"
        /\ GetInstanceById(instances, last'.id) = None)
          => (last'.ret = None /\ instances' = instances /\ clusters' = clusters)]_vars

C8_Witness ==
    /\ last.op = "extend_instance"
    /\ last.ret = None
    /\ last.n = 2
    /\ last.id \in DropletIds
    /\ \E i \in DropletIds : instances[i] # NoRow

-----------------------------------------------------------------------------
(* The cluster operations of the provider client under every sequence of answers *)

\* what a call of a cluster operation was given and what it did: the answers to its
\* attempts, the requests made, the sleeps between them, what the caller got
ClientCall(op, id, name, resps, result) ==
    LET run == DoRequestWithRetry(resps)
    IN  [op |-> op, id |-> id, name |-> name, resps |-> resps,
         outcome |-> run.outcome, requests |-> run.requests, sleeps |-> run.sleeps,
         result |-> result]

\* a call that ended before its first request
NoRequest(op, id, name, result) ==
    [op |-> op, id |-> id, name |-> name, resps |-> <<>>,
     outcome |-> "none", requests |-> 0, sleeps |-> <<>>, result |-> result]

\* create_k8s_cluster as one call: the name check, the request, save_k8s_cluster
ClCreateK8sCluster(u, name, d, resps, st) ==
    /\ CanAnswer(resps, \E i \in ClusterIds : doClusters[i] = "none")
    /\ LET existing == GetK8sClusterByName(clusters, name, u)
           res == ClientResult(resps)
       IN  IF existing # None
           THEN /\ UNCHANGED <<clusters, doClusters>>
                /\ last' = NoRequest("create_k8s_cluster", existing.cluster_id, name, "failed")
           ELSE IF res = "ok"
           THEN LET id == FreshId(doClusters)
                IN  /\ doClusters' = [doClusters EXCEPT ![id] = st]
                    /\ clusters' = SaveK8sCluster(clusters, id, name, u, st, LiveEndpoint(id, st),
                                                  StrFTime(PlusDays(now, d)))
                    /\ last' = ClientCall("create_k8s_cluster", id, name, resps, res)
           ELSE /\ UNCHANGED <<clusters, doClusters>>
                /\ last' = ClientCall("create_k8s_cluster", 0, name, resps, res)
    /\ UNCHANGED <<now, instances, doDroplets, pa, pb, calls, cache>>

\* get_k8s_cluster
ClGetK8sCluster(id, resps) ==
    /\ CanAnswer(resps, doClusters[id] \notin {"none", "gone"})
    /\ last' = ClientCall("get_k8s_cluster", id, "", resps, ClientResult(resps))
    /\ UNCHANGED <<now, instances, clusters, doDroplets, doClusters, pa, pb, calls, cache>>

\* get_kubeconfig
ClGetKubeconfig(id, resps) ==
    /\ CanAnswer(resps, doClusters[id] \notin {"none", "gone"})
    /\ last' = ClientCall("get_kubeconfig", id, "", resps, ClientResult(resps))
    /\ UNCHANGED <<now, instances, clusters, doDroplets, doClusters, pa, pb, calls, cache>>

\* delete_k8s_cluster
ClDeleteK8sCluster(id, resps) ==
    /\ DeleteK8sCluster(id, resps)
    /\ last' = ClientCall("delete_k8s_cluster", id, "", resps, ClientResult(resps))
    /\ UNCHANGED <<now, instances, doDroplets, pa, pb, calls, cache>>

K8sClientNext ==
    \/ \E resps \in RespSeqs : ClCreateK8sCluster(Owner, "alpha", 1, resps, "provisioning")
    \/ \E id \in ClusterIds, resps \in RespSeqs : ClGetK8sCluster(id, resps)
    \/ \E id \in ClusterIds, resps \in RespSeqs : ClGetKubeconfig(id, resps)
    \/ \E id \in ClusterIds, resps \in RespSeqs : ClDeleteK8sCluster(id, resps)

SpecK8sClient == Init /\ [][K8sClientNext]_vars

K8sOps == {"create_k8s_cluster", "get_k8s_cluster", "get_kubeconfig", "delete_k8s_cluster"}

\* attempt k of the call is made: no answer before it ended the call
Attempted(resps, k) ==
    /\ k \in DOMAIN resps
    /\ \A j \in 1..(k - 1) : resps[j] \in {"429", "5xx", "timeout"}

-----------------------------------------------------------------------------
(* The droplet operations of the provider client under every sequence of answers *)

IP_POLL_ATTEMPTS == 10

\* "Не удалось получить IP-адрес"
NoIpAddress == "no-ip-address"

\* one request of a droplet operation: the first answer decides, raise_for_status()
\* turning every status that is not 2xx into an HTTPStatusError
VmRequest(resps) ==
    [outcome |-> CASE resps[1] = "2xx" -> "response"
                   [] resps[1] = "timeout" -> "TimeoutException"
                   [] OTHER -> "HTTPStatusError",
     requests |-> 1, sleeps |-> <<>>]

\* what a droplet operation hands to its caller: except httpx.HTTPError
VmResult(resps) ==
    LET o == VmRequest(resps).outcome
    IN  IF o = "response" THEN "ok" ELSE IF IsHTTPError(o) THEN "failed" ELSE "raised"

\* the answers to the polls for the address: the address is there from poll k on, poll e
\* is answered with an error; IP_POLL_ATTEMPTS + 1 stands for never
PollAnswers(k, e) ==
    [i \in 1..IP_POLL_ATTEMPTS |-> IF i = e THEN "error" ELSE IF i >= k THEN "ip" ELSE "none"]

\* for _ in range(IP_POLL_ATTEMPTS): GET, raise_for_status(), break at an address
RECURSIVE IpPoll(_, _)
IpPoll(nets, i) ==
    IF i > IP_POLL_ATTEMPTS
    THEN [polls |-> IP_POLL_ATTEMPTS, ip_address |-> NoIpAddress, error |-> FALSE]
    ELSE CASE nets[i] = "error" -> [polls |-> i, ip_address |-> "", error |-> TRUE]
           [] nets[i] = "ip" -> [polls |-> i, ip_address |-> "ip", error |-> FALSE]
           [] OTHER -> IpPoll(nets, i + 1)

\* a polling that gives up the creation when no address has come
PollIpsFatal(nets) ==
    LET r == IpPoll(nets, 1)
    IN  IF r.ip_address = NoIpAddress THEN [r EXCEPT !.error = TRUE] ELSE r

\* the polling of create_droplet and `if not ip_address`
PollIps(nets) == IpPoll(nets, 1)

\* create_droplet by the answers to its POST and to its polls
CreateOutcome(resps, nets) ==
    IF VmResult(resps) # "ok" THEN "post_failed"
    ELSE IF PollIps(nets).error THEN "poll_failed"
    ELSE "ok"

VmCall(op, id, resps, result) ==
    [op |-> op, id |-> id, resps |-> resps, outcome |-> VmRequest(resps).outcome,
     requests |-> VmRequest(resps).requests, sleeps |-> VmRequest(resps).sleeps,
     result |-> result]

\* create_droplet
ClCreateDroplet(u, d, resps, k, e) ==
    /\ LET nets == PollAnswers(k, e)
           outcome == CreateOutcome(resps, nets)
           polled == PollIps(nets)
       IN  /\ DropletCreated(u, d, outcome)
           /\ last' = [op |-> "create_droplet",
                       id |-> IF outcome = "post_failed" THEN 0 ELSE FreshId(doDroplets),
                       resps |-> resps, outcome |-> VmRequest(resps).outcome,
                       requests |-> 1, sleeps |-> <<>>,
                       result |-> IF outcome = "ok" THEN "ok" ELSE "failed",
                       days |-> d, k |-> k, e |-> e,
                       polls |-> IF outcome = "post_failed" THEN 0 ELSE polled.polls,
                       ip_address |-> IF outcome = "ok" THEN polled.ip_address ELSE ""]
    /\ UNCHANGED <<now, clusters, doClusters, pa, pb, calls, cache>>

\* delete_droplet
ClDeleteDroplet(id, resps) ==
    /\ CanAnswer(resps, doDroplets[id] = "active")
    /\ DeleteDroplet(id, VmResult(resps))
    /\ last' = VmCall("delete_droplet", id, resps, VmResult(resps))
    /\ UNCHANGED <<now, clusters, doClusters, pa, pb, calls, cache>>

\* create_snapshot
ClCreateSnapshot(id, resps) ==
    /\ CanAnswer(resps, doDroplets[id] = "active")
    /\ last' = VmCall("create_snapshot", id, resps, VmResult(resps))
    /\ UNCHANGED <<now, instances, clusters, doDroplets, doClusters, pa, pb, calls, cache>>

VmClientNext ==
    \/ \E resps \in RespSeqs : ClCreateDroplet(Owner, 1, resps, 1, IP_POLL_ATTEMPTS + 1)
    \/ \E k, e \in 1..(IP_POLL_ATTEMPTS + 1) :
          ClCreateDroplet(Owner, 1, <<"2xx", "2xx", "2xx">>, k, e)
    \/ \E id \in DropletIds, resps \in RespSeqs : ClDeleteDroplet(id, resps)
    \/ \E id \in DropletIds, resps \in RespSeqs : ClCreateSnapshot(id, resps)

SpecVmClient == Init /\ [][VmClientNext]_vars

VmOps == {"create_droplet", "delete_droplet", "create_snapshot"}

-----------------------------------------------------------------------------
(* The sweep over droplets, with the wait for the snapshot run poll by poll *)

WaitTimeout == 600       \* wait_for_action(token, action_id, timeout=600, ...)
WaitInterval == 15       \* ... interval=15

\* the poll at which the provider reports the end of the action; the last stands for never
WaitPolls == {1, 2, WaitTimeout \div WaitInterval, WaitTimeout \div WaitInterval + 1}
\* what it reports there: a terminal status, or an answer that raise_for_status() refuses
WaitEnds == {"completed", "errored", "error"}
\* seconds one status request takes
WaitGets == {0, 5}

\* while time.time() < deadline: GET, raise_for_status(), status, sleep(interval);
\* t counts from the call, polls are the requests made so far
RECURSIVE WaitLoop(_, _, _, _, _, _)
WaitLoop(k, end, g, deadline, t, polls) ==
    IF t >= deadline
    THEN [success |-> FALSE, message |-> "Timeout", polls |-> polls, t |-> t]
    ELSE IF polls + 1 = k
    THEN CASE end = "completed" ->
                [success |-> TRUE, message |-> "", polls |-> k, t |-> t]
           [] end = "errored" ->
                [success |-> FALSE, message |-> "Action errored", polls |-> k, t |-> t]
           [] OTHER ->
                [success |-> FALSE, message |-> "HTTPError", polls |-> k, t |-> t]
    ELSE WaitLoop(k, end, g, deadline, t + g + WaitInterval, polls + 1)

\* a wait that never looks at its deadline
WaitForActionNoDeadline(k, end, g) ==
    WaitLoop(k, end, g, (k + 1) * (g + WaitInterval), 0, 0)

\* wait_for_action with its default timeout and interval
WaitForAction(k, end, g) == WaitLoop(k, end, g, WaitTimeout, 0, 0)

\* the result of the wait as the sweep logs it
WaitResult(r) ==
    IF r.success THEN "completed"
    ELSE IF r.message = "Action errored" THEN "errored"
    ELSE r.message

\* await wait_for_action(...) by the provider's answers, then
\* send_notification("snapshot_created") on success; the log keeps the call
PaWaitFor(k, end, g) ==
    /\ pa.pc = "vm_wait"
    /\ LET r == WaitForAction(k, end, g)
           c == pa.cur
       IN  pa' = [pa EXCEPT
                    !.pc = "vm_delete",
                    !.cur = [kind |-> c.kind, id |-> c.id, status |-> c.status,
                             left |-> c.left, act |-> c.act, del |-> c.del,
                             snap |-> WaitResult(r),
                             notes |-> IF r.success THEN c.notes \cup {"snapshot_created"}
                                       ELSE c.notes,
                             wait |-> [k |-> k, end |-> end, g |-> g,
                                       polls |-> r.polls, t |-> r.t]]]
    /\ UNCHANGED <<now, instances, clusters, doDroplets, doClusters, pb, calls, last, cache>>

\* the droplet is destroyed at the provider by other means than the bot
ProviderRemovesDroplet(id) ==
    /\ doDroplets[id] = "active"
    /\ doDroplets' = [doDroplets EXCEPT ![id] = "gone"]
    /\ UNCHANGED <<now, instances, clusters, doClusters, pa, pb, calls, last, cache>>

VmNext ==
    \/ \E t \in Instants : Tick(t)
    \/ \E o \in CreateOutcomes : CreateDroplet(Owner, 1, o)
    \/ \E id \in DropletIds : ProviderRemovesDroplet(id)
    \/ PassAStart
    \/ PaNext
    \/ \E sent \in BOOLEAN : PaWarn(sent)
    \/ \E res \in SnapshotResults : PaSnapshot(res)
    \/ \E k \in WaitPolls, end \in WaitEnds, g \in WaitGets : PaWaitFor(k, end, g)
    \/ \E res \in DeleteResults : PaDeleteVm(res)

SpecVm == Init /\ [][VmNext]_vars

-----------------------------------------------------------------------------
(* Claims about the retry policy *)

\* C12: a call of a cluster operation whose attempt k is answered with a 4xx status
\* other than 429 ends at that attempt: k requests are made, none after it, no sleep
\* follows it, the operation returns its failure, and create_k8s_cluster saves no row
\* and leaves the provider's clusters as they were.
C12_ClientErrorFailsAtOnce ==
    [][\A k \in 1..MAX_RETRIES :
          (/\ last'.op \in K8sOps
           /\ Attempted(last'.resps, k)
           /\ last'.resps[k] = "4xx") =>
              /\ last'.requests = k
              /\ Len(last'.sleeps) = k - 1
              /\ last'.outcome = "HTTPStatusError"
              /\ last'.result = "failed"
              /\ last'.op = "create_k8s_cluster" =>
                    (clusters' = clusters /\ doClusters' = doClusters)
      ]_vars

\* create_k8s_cluster answered 5xx and then 4xx: two requests, one sleep, nothing saved
C12_Witness ==
    /\ last.op = "create_k8s_cluster"
    /\ last.resps = <<"5xx", "4xx", "2xx">>
    /\ last.requests = 2
    /\ last.sleeps = <<1>>
    /\ last.result = "failed"
    /\ \A i \in ClusterIds : clusters[i] = NoRow

\* the schedule of the sleeps: base 1 s, doubled, never above 30 s
Backoff(n) == [k \in 1..n |-> Min(BACKOFF_BASE * 2 ^ (k - 1), 30)]

\* C13: a call whose attempts are all answered with 5xx or with a timeout makes exactly
\* 3 requests and sleeps 1 s before the second and 2 s before the third; a call whose
\* attempt k succeeds after such answers returns the response at once, with k requests
\* and the first k - 1 sleeps of the schedule; no sleep is above 30 s.
C13_TransientRetried ==
    (last.op \in K8sOps /\ last.resps # <<>>) =>
        /\ (\A k \in DOMAIN last.resps : last.resps[k] \in {"5xx", "timeout"}) =>
              /\ last.requests = 3
              /\ last.sleeps = <<1, 2>>
              /\ last.outcome = IF last.resps[MAX_RETRIES] = "5xx" THEN "HTTPStatusError"
                                ELSE "TimeoutException"
              /\ last.result = "failed"
        /\ \A k \in DOMAIN last.resps :
              (/\ last.resps[k] = "2xx"
               /\ \A j \in 1..(k - 1) : last.resps[j] \in {"5xx", "timeout"}) =>
                  /\ last.outcome = "response"
                  /\ last.requests = k
                  /\ last.sleeps = Backoff(k - 1)
                  /\ last.result = "ok"
        /\ \A k \in DOMAIN last.sleeps : last.sleeps[k] <= 30

\* get_k8s_cluster answered with a timeout, a 5xx and then the cluster
C13_Witness ==
    /\ last.op = "get_k8s_cluster"
    /\ last.resps = <<"timeout", "5xx", "2xx">>
    /\ last.requests = 3
    /\ last.sleeps = <<1, 2>>
    /\ last.result = "ok"

\* C14: a call of a cluster operation that uses up its attempts without a response,
\* whatever the answers were (5xx, timeouts, 429 or a mix), returns the operation's
\* failure {success: False, message}; no other exception reaches the caller.
C14_ExhaustionIsTyped ==
    (/\ last.op \in K8sOps
     /\ last.requests = MAX_RETRIES
     /\ last.outcome # "response") => last.result = "failed"

\* C15: the droplet operations retry as the cluster operations do: a call whose first
\* answer is a 5xx, a 429 or a timeout and whose next answer would be a success does
\* not report a failure.
C15_VmOperationsRetry ==
    (/\ last.op \in VmOps
     /\ last.resps[1] \in {"5xx", "429", "timeout"}
     /\ last.resps[2] = "2xx") => last.result = "ok"

\* C16: after the provider confirmed the creation, create_droplet polls for the address
\* at most IP_POLL_ATTEMPTS times; with every poll answered and no address in any of
\* them it returns success with the address-unavailable text after exactly that many
\* polls, and the row is saved with the expiration of the request; an address at poll
\* k ends the polling there.
C16_IpPollingBounded ==
    (last.op = "create_droplet" /\ last.outcome = "response") =>
        /\ last.polls <= IP_POLL_ATTEMPTS
        /\ (last.k > IP_POLL_ATTEMPTS /\ last.e > IP_POLL_ATTEMPTS) =>
              /\ last.result = "ok"
              /\ last.polls = IP_POLL_ATTEMPTS
              /\ last.ip_address = NoIpAddress
        /\ (last.k <= IP_POLL_ATTEMPTS /\ last.e > last.k) =>
              /\ last.result = "ok"
              /\ last.polls = last.k
              /\ last.ip_address = "ip"
        /\ last.result = "ok" =>
              /\ instances[last.id] # NoRow
              /\ instances[last.id].expiration_date = StrFTime(PlusDays(now, last.days))

\* ten polls without an address, and the droplet is saved
C16_Witness ==
    /\ last.op = "create_droplet"
    /\ last.k > IP_POLL_ATTEMPTS /\ last.e > IP_POLL_ATTEMPTS
    /\ last.polls = 10
    /\ last.result = "ok"
    /\ last.ip_address = NoIpAddress
    /\ instances[last.id] # NoRow

-----------------------------------------------------------------------------
(* Claims about the sweep over droplets *)

\* C11: when the sweep's delete_droplet is answered for a droplet that is already gone at
\* the provider, the delete counts as done: the result is a success and the row is removed.
C11_DeleteToleratesGone ==
    [][(pa.pc = "vm_delete" /\ pa'.pc = "next" /\ doDroplets[pa.cur.id] = "gone")
            => (pa'.cur.del = "ok" /\ instances'[pa.cur.id] = NoRow)]_vars

\* the wait step of the current item has run
Waited == pa.cur # None /\ "wait" \in DOMAIN pa.cur

\* C17 (as stated): wait_for_action ends with one of three outcomes: success when the
\* provider reports completed, failure 'Action errored', failure 'Timeout'.
C17_ThreeOutcomes ==
    Waited => pa.cur.snap \in {"completed", "errored", "Timeout"}

\* C17 (amended): wait_for_action ends after at most timeout/interval requests with one
\* of four outcomes: success exactly when the provider reports completed before the
\* deadline, failure 'Action errored' when it reports errored, failure 'Timeout' when the
\* deadline passes first, failure with the HTTP error's text when a status request fails;
\* after each of them the sweep goes on to delete the droplet.
C17_WaitTerminates ==
    Waited =>
        LET w == pa.cur.wait
            snap == pa.cur.snap
        IN  /\ w.polls <= WaitTimeout \div WaitInterval
            /\ snap \in {"completed", "errored", "Timeout", "HTTPError"}
            /\ snap = "completed" <=> (w.end = "completed" /\ w.polls = w.k /\ w.t < WaitTimeout)
            /\ snap = "errored" <=> (w.end = "errored" /\ w.polls = w.k /\ w.t < WaitTimeout)
            /\ snap = "HTTPError" <=> (w.end = "error" /\ w.polls = w.k /\ w.t < WaitTimeout)
            /\ snap = "Timeout" <=> (w.polls < w.k /\ w.t >= WaitTimeout)
            /\ ("snapshot_created" \in pa.cur.notes) <=> (snap = "completed")
            /\ pa.pc \in {"vm_delete", "next"}
            /\ pa.pc = "next" => pa.cur.del \in DeleteResults

\* a wait that made every request the deadline allows and timed out, followed by the
\* delete of the droplet
C17_Witness ==
    /\ Waited
    /\ pa.pc = "next"
    /\ pa.cur.snap = "Timeout"
    /\ pa.cur.wait.polls = WaitTimeout \div WaitInterval
    /\ pa.cur.del = "ok"
    /\ instances[pa.cur.id] = NoRow

-----------------------------------------------------------------------------
(* Claims about the failures inside the poll *)

\* the clusters a run of the poll has taken or still has in its list
PbCovered(p) ==
    p.done \cup (IF p.cur = None THEN {} ELSE {p.cur.id})
           \cup {p.queue[k].id : k \in DOMAIN p.queue}

ProvisioningIds(tbl) ==
    {GetProvisioningK8sClusters(tbl)[k].id : k \in DOMAIN GetProvisioningK8sClusters(tbl)}

\* C18: when get_k8s_cluster returns a failure or raises for a provisioning cluster, the
\* poll writes nothing to the store (the row, if still there, stays provisioning), sends
\* no message and no event for it, and goes on: no step of a run drops a cluster of its
\* list, the next one in the list is queried next, and the run ends only after the last.
\* No cluster is stored as errored unless the provider reported it errored.
C18_PollIsolation ==
    [][/\ (pb.pc = "get" /\ pb'.cur # None /\ pb'.cur.live \in {"failed", "raised"}) =>
             /\ pb'.pc = "next"
             /\ clusters' = clusters
             /\ clusters[pb.cur.id] # NoRow => clusters'[pb.cur.id].status = "provisioning"
             /\ ~ pb'.cur.updated
             /\ pb'.cur.dm = "-" /\ pb'.cur.notes = {}
       /\ (pb'.cur # None /\ pb'.cur.stored = "errored") => pb'.cur.live = "errored"
       /\ (pb.pc # "idle" /\ pb'.pc # "idle") => PbCovered(pb) \subseteq PbCovered(pb')
       /\ (pb.pc = "idle" /\ pb'.pc # "idle") => ProvisioningIds(clusters) \subseteq PbCovered(pb')
       /\ (pb.pc = "next" /\ pb' # pb /\ pb.queue # <<>>) =>
             (pb'.pc = "get" /\ pb'.cur.id = Head(pb.queue).id)
       /\ (pb.pc # "idle" /\ pb'.pc = "idle") => (pb.pc = "next" /\ pb.queue = <<>>)
      ]_vars

\* the status query of a cluster that is running at the provider has raised, the row is
\* still provisioning, and another cluster waits in the list
C18_Witness ==
    /\ pb.pc = "next"
    /\ pb.cur.live = "raised"
    /\ pb.queue # <<>>
    /\ doClusters[pb.cur.id] = "running"
    /\ clusters[pb.cur.id] # NoRow
    /\ clusters[pb.cur.id].status = "provisioning"

\* C19: when the poll has stored a cluster as running, the creator's ready message is
\* attempted and the ready event is emitted whether or not the kubeconfig was fetched
\* and sent.
C19_ReadyDespiteKubeconfig ==
    (pb.pc = "next" /\ pb.cur.updated /\ pb.cur.live \in {"running", "degraded"}) =>
        /\ clusters[pb.cur.id] # NoRow =>
              (clusters[pb.cur.id].status = "running" /\ clusters[pb.cur.id].endpoint # "")
        /\ "ready" \in pb.cur.notes

-----------------------------------------------------------------------------
(* The sweep with the history of its warnings *)

\* callback_data of the three buttons under a warning: "extend_3_{id}", "extend_7_{id}",
\* "delete_{id}" for a droplet, the same behind "k8s_" for a cluster
WarnButtons(kind, id) ==
    LET pre == IF kind = "k8s" THEN "k8s_" ELSE ""
    IN  {pre \o "extend_3_" \o ToString(id),
         pre \o "extend_7_" \o ToString(id),
         pre \o "delete_" \o ToString(id)}

\* the resources warned so far, by the record of the latest warning
WarnedBefore == IF last.op = "warning" THEN last.warned ELSE {}

\* the record of one warning: the resource, the buttons, whether the send went through,
\* and whether the resource had been warned before
Warning(kind, id, sent) ==
    [op |-> "warning", kind |-> kind, id |-> id, buttons |-> WarnButtons(kind, id),
     sent |-> sent, again |-> <<kind, id>> \in WarnedBefore,
     warned |-> WarnedBefore \cup {<<kind, id>>}]

\* a sweep that warns a resource once and stays silent about it afterwards
PaWarnOnce(sent) ==
    /\ pa.pc \in {"vm_warn", "k8s_warn"}
    /\ IF <<pa.cur.kind, pa.cur.id>> \in WarnedBefore
       THEN /\ pa' = EndItem(pa, pa.cur)
            /\ last' = last
       ELSE /\ pa' = EndItem(pa, [pa.cur EXCEPT !.notes = IF sent THEN @ \cup {"warning"} ELSE @])
            /\ last' = Warning(pa.cur.kind, pa.cur.id, sent)
    /\ UNCHANGED <<now, instances, clusters, doDroplets, doClusters, pb, calls, cache>>

\* the warning branch of either loop: get_chat, send_message with the three buttons; a
\* failure of the send is caught and logged; the record keeps what was sent
PaWarnSend(sent) ==
    /\ pa.pc \in {"vm_warn", "k8s_warn"}
    /\ pa' = EndItem(pa, [pa.cur EXCEPT !.notes = IF sent THEN @ \cup {"warning"} ELSE @])
    /\ last' = Warning(pa.cur.kind, pa.cur.id, sent)
    /\ UNCHANGED <<now, instances, clusters, doDroplets, doClusters, pb, calls, cache>>

WarnNext ==
    \/ \E t \in Instants : Tick(t)
    \/ CreateDroplet(Owner, 1, "ok")
    \/ KcStart(1, Owner, "alpha", 1)
    \/ KcRespond(1, <<"2xx", "2xx", "2xx">>, "provisioning")
    \/ KcReply(1)
    \/ PassAStart
    \/ PaNext
    \/ \E sent \in BOOLEAN : PaWarnSend(sent)
    \/ PaSnapshot("ok")
    \/ PaWaitAction("completed")
    \/ PaDeleteVm("ok")
    \/ PaDeleteK8s(<<"2xx", "2xx", "2xx">>)

SpecWarn == Init /\ [][WarnNext]_vars

\* C20: every item of a sweep with 0 < secondsLeft <= 86400 reaches the warning step,
\* whatever was warned in earlier sweeps; the step sends the creator a message with the
\* three buttons (extend 3 days, extend 7 days, delete now) of that resource, also when
\* the resource was warned before, and changes neither table nor the provider's
\* droplets and clusters.
C20_WarningsNotDeduplicated ==
    [][/\ (pa' # pa /\ pa'.cur # None /\ pa'.pc \notin {"idle", "next"}
             /\ pa.pc \in {"idle", "next"}
             /\ 0 < pa'.cur.left /\ pa'.cur.left <= 86400) =>
                pa'.pc \in {"vm_warn", "k8s_warn"}
       /\ (pa.pc \in {"vm_warn", "k8s_warn"} /\ pa'.pc = "next") =>
             /\ last'.op = "warning"
             /\ last'.kind = pa.cur.kind /\ last'.id = pa.cur.id
             /\ last'.again = (<<pa.cur.kind, pa.cur.id>> \in WarnedBefore)
             /\ Cardinality(last'.buttons) = 3
             /\ last'.buttons = WarnButtons(pa.cur.kind, pa.cur.id)
             /\ ("warning" \in pa'.cur.notes) = last'.sent
             /\ pa'.cur.del = "-" /\ pa'.cur.snap = "-"
             /\ UNCHANGED <<instances, clusters, doDroplets, doClusters>>
      ]_vars

\* a droplet warned in an earlier sweep has been warned again, the message sent both
\* times, and its row and the droplet are as they were
C20_Witness ==
    /\ pa.pc = "next"
    /\ pa.cur.kind = "vm" /\ pa.cur.act = "warn"
    /\ "warning" \in pa.cur.notes
    /\ last.op = "warning" /\ last.again /\ last.sent
    /\ last.id = pa.cur.id /\ last.kind = "vm"
    /\ <<"k8s", 1>> \in last.warned
    /\ instances[pa.cur.id] # NoRow
    /\ doDroplets[pa.cur.id] = "active"

-----------------------------------------------------------------------------
(* The creators' extend and delete requests and the notifications after them *)

\* NOTIFICATION_CHANNEL_ID: not configured, or a channel
Channels == {"", "-100123"}
\* what bot.send_message does with the notification
SendResults == {"ok", "raises"}

NoNote == [attempted |-> FALSE, delivered |-> FALSE, raised |-> FALSE]

\* a notification whose send failure reaches the caller
SendNotificationRaising(chan, send) ==
    IF chan = "" THEN NoNote
    ELSE [attempted |-> TRUE, delivered |-> send = "ok", raised |-> send # "ok"]

\* send_notification and send_k8s_notification: return without a send when no channel
\* is configured; the text and the send are inside try/except Exception
SendNotification(chan, send) ==
    IF chan = "" THEN NoNote
    ELSE [attempted |-> TRUE, delivered |-> send = "ok", raised |-> FALSE]

\* the warning-message buttons and the confirmations of the management menus
ButtonHandlers == {"handle_extend", "handle_delete", "handle_k8s_extend", "handle_k8s_delete"}
MenuHandlers == {"manage_extend_confirm", "manage_delete_confirm",
                 "k8s_manage_extend_confirm", "k8s_manage_delete_confirm"}

\* the handlers that compare the row's creator_id with query.from_user.id
ChecksCreator(h) == h \in ButtonHandlers

\* what a handler does before it touches the row: the button handlers refuse another
\* user's resource; a menu handler runs in the conversation of a user whose own list
\* was shown (the list is not empty) and takes the id from the button pressed
Admits(h, tbl, id, u) ==
    /\ tbl[id] # NoRow
    /\ ChecksCreator(h) => tbl[id].creator_id = u
    /\ h \in MenuHandlers => \E i \in DOMAIN tbl : tbl[i] # NoRow /\ tbl[i].creator_id = u

\* the record of one request: the user, the row's creator, the result of the lifecycle
\* action, whether a table or the provider changed, and the notification
Request(h, id, days, u, creator, ok, ret, changed, note) ==
    [op |-> h, id |-> id, days |-> days, user |-> u, creator |-> creator, ok |-> ok,
     ret |-> ret, changed |-> changed, note |-> note]

\* handle_extend, manage_extend_confirm: extend_instance_expiration, reply, notification
CbExtend(h, id, days, u, chan, send) ==
    /\ h \in {"handle_extend", "manage_extend_confirm"}
    /\ instances[id] # NoRow
    /\ WithinCap(instances, id, days, MaxDay + 2)
    /\ LET r == ExtendInstanceExpiration(instances, id, days, now)
           go == Admits(h, instances, id, u)
       IN  /\ instances' = IF go THEN r.tbl ELSE instances
           /\ last' = Request(h, id, days, u, instances[id].creator_id, go /\ r.ret # None,
                              IF go THEN r.ret ELSE None, go,
                              IF go /\ r.ret # None THEN SendNotification(chan, send)
                              ELSE NoNote)
    /\ UNCHANGED <<now, clusters, doDroplets, doClusters, pa, pb, calls, cache>>

\* handle_delete, manage_delete_confirm: delete_droplet, reply, notification
CbDelete(h, id, u, res, chan, send) ==
    /\ h \in {"handle_delete", "manage_delete_confirm"}
    /\ instances[id] # NoRow
    /\ LET go == Admits(h, instances, id, u)
       IN  /\ IF go THEN DeleteDroplet(id, res)
              ELSE UNCHANGED <<instances, doDroplets>>
           /\ last' = Request(h, id, 0, u, instances[id].creator_id, go /\ res = "ok",
                              None, go /\ res = "ok",
                              IF go /\ res = "ok" THEN SendNotification(chan, send)
                              ELSE NoNote)
    /\ UNCHANGED <<now, clusters, doClusters, pa, pb, calls, cache>>

\* handle_k8s_extend, k8s_manage_extend_confirm: extend_k8s_cluster_expiration, reply,
\* notification
CbK8sExtend(h, id, days, u, chan, send) ==
    /\ h \in {"handle_k8s_extend", "k8s_manage_extend_confirm"}
    /\ clusters[id] # NoRow
    /\ WithinCap(clusters, id, days, MaxDay + 2)
    /\ LET r == ExtendK8sClusterExpiration(clusters, id, days)
           go == Admits(h, clusters, id, u)
       IN  /\ clusters' = IF go THEN r.tbl ELSE clusters
           /\ last' = Request(h, id, days, u, clusters[id].creator_id, go /\ r.ret # None,
                              IF go THEN r.ret ELSE None, go,
                              IF go /\ r.ret # None THEN SendNotification(chan, send)
                              ELSE NoNote)
    /\ UNCHANGED <<now, instances, doDroplets, doClusters, pa, pb, calls, cache>>

\* handle_k8s_delete, k8s_manage_delete_confirm: delete_k8s_cluster, reply, notification
CbK8sDelete(h, id, u, resps, chan, send) ==
    /\ h \in {"handle_k8s_delete", "k8s_manage_delete_confirm"}
    /\ clusters[id] # NoRow
    /\ LET go == Admits(h, clusters, id, u)
           ok == go /\ ClientResult(resps) = "ok"
       IN  /\ IF go THEN DeleteK8sCluster(id, resps)
              ELSE UNCHANGED <<clusters, doClusters>>
           /\ last' = Request(h, id, 0, u, clusters[id].creator_id, ok, None, ok,
                              IF ok THEN SendNotification(chan, send) ELSE NoNote)
    /\ UNCHANGED <<now, instances, doDroplets, pa, pb, calls, cache>>

\* a channel with a send that goes through, one with a send that fails, and no channel
Sends == {<<"-100123", "ok">>, <<"-100123", "raises">>, <<"", "ok">>}

HandlersNext ==
    \/ \E u \in Users : CreateDroplet(u, 1, "ok")
    \/ KcStart(1, Owner, "alpha", 1)
    \/ KcRespond(1, <<"2xx", "2xx", "2xx">>, "provisioning")
    \/ KcReply(1)
    \/ \E h \in {"handle_extend", "manage_extend_confirm"}, id \in DropletIds, u \in Users,
          s \in Sends : CbExtend(h, id, 3, u, s[1], s[2])
    \/ \E h \in {"handle_delete", "manage_delete_confirm"}, id \in DropletIds, u \in Users,
          s \in Sends, res \in DeleteResults : CbDelete(h, id, u, res, s[1], s[2])
    \/ \E h \in {"handle_k8s_extend", "k8s_manage_extend_confirm"}, id \in ClusterIds,
          u \in Users, s \in Sends : CbK8sExtend(h, id, 3, u, s[1], s[2])
    \/ \E h \in {"handle_k8s_delete", "k8s_manage_delete_confirm"}, id \in ClusterIds,
          u \in Users, s \in Sends, resps \in {<<"2xx", "2xx", "2xx">>, <<"429", "429", "429">>} :
            CbK8sDelete(h, id, u, resps, s[1], s[2])

SpecHandlers == Init /\ [][HandlersNext]_vars

\* C21: send_notification and send_k8s_notification never raise to their caller, whatever
\* the send does, and attempt no send when no channel is configured (the record of a
\* request keeps the channel's part in its notification); the lifecycle action around
\* the notification keeps its outcome: after a successful delete the row is gone, after
\* a successful extend the stored expiration is the extended one, delivered or not.
C21_NotificationBestEffort ==
    last.op \in ButtonHandlers \cup MenuHandlers =>
        /\ ~ last.note.raised
        /\ last.note.delivered => last.note.attempted
        /\ last.note.attempted => last.ok
        /\ (last.ok /\ last.op \in {"handle_delete", "manage_delete_confirm"}) =>
              (instances[last.id] = NoRow /\ doDroplets[last.id] = "gone")
        /\ (last.ok /\ last.op \in {"handle_k8s_delete", "k8s_manage_delete_confirm"}) =>
              (clusters[last.id] = NoRow /\ doClusters[last.id] = "gone")
        /\ (last.ok /\ last.op \in {"handle_extend", "manage_extend_confirm"}) =>
              ExpOf(instances, last.id) = last.ret
        /\ (last.ok /\ last.op \in {"handle_k8s_extend", "k8s_manage_extend_confirm"}) =>
              ExpOf(clusters, last.id) = last.ret

\* the owner has deleted a droplet and the send of the notification failed
C21_Witness ==
    /\ last.op = "handle_delete"
    /\ last.ok
    /\ last.note.attempted /\ ~ last.note.delivered /\ ~ last.note.raised
    /\ instances[last.id] = NoRow
    /\ doDroplets[last.id] = "gone"

\* C22: a request through any of the eight extend and delete handlers changes a table or
\* the provider only if the acting user is the creator of the resource.
C22_OnlyTheCreator ==
    (last.op \in ButtonHandlers \cup MenuHandlers /\ last.changed) =>
        last.creator = last.user

-----------------------------------------------------------------------------
(* Table instances with all its columns: save, attach DNS, fetch, delete *)

\* a text or integer value of a nullable column, comparable with None
Val(v) == <<v>>

\* the arguments of one save_instance call; the optional ones default to None
SaveArgs(id, u, d, t, full) ==
    [droplet_id |-> id, name |-> "vm-" \o ToString(id),
     ip_address |-> "10.0.0." \o ToString(id), droplet_type |-> "s-2vcpu-2gb",
     expiration_date |-> StrFTime(PlusDays(t, d)), ssh_key_id |-> id + 100,
     creator_id |-> u,
     creator_username |-> IF full THEN Val("@user" \o ToString(u)) ELSE None,
     created_at |-> IF full THEN StrFTime(t) ELSE None,
     price_hourly |-> IF full THEN Val("0.02679") ELSE None]

\* INSERT INTO instances (ten columns) VALUES (...): the DNS columns stay NULL
SaveInstanceRow(tbl, a) ==
    IF tbl[a.droplet_id] # NoRow THEN tbl
    ELSE [tbl EXCEPT ![a.droplet_id] =
            [droplet_id |-> a.droplet_id, name |-> a.name, ip_address |-> a.ip_address,
             droplet_type |-> a.droplet_type, expiration_date |-> a.expiration_date,
             ssh_key_id |-> a.ssh_key_id, creator_id |-> a.creator_id,
             creator_username |-> a.creator_username,
             domain_name |-> None, dns_record_id |-> None, dns_zone |-> None,
             created_at |-> a.created_at, price_hourly |-> a.price_hourly]]

\* an update that writes the domain name and leaves the record id and the zone
UpdateInstanceDnsNameOnly(tbl, id, domain_name, dns_record_id, dns_zone) ==
    [tbl |-> IF id \in DOMAIN tbl /\ tbl[id] # NoRow
             THEN [tbl EXCEPT ![id].domain_name = domain_name]
             ELSE tbl,
     ret |-> TRUE]

\* UPDATE instances SET domain_name = ?, dns_record_id = ?, dns_zone = ? WHERE
\* droplet_id = ?; return True unless sqlite raised
UpdateInstanceDns(tbl, id, domain_name, dns_record_id, dns_zone) ==
    [tbl |-> IF id \in DOMAIN tbl /\ tbl[id] # NoRow
             THEN [tbl EXCEPT ![id].domain_name = domain_name,
                              ![id].dns_record_id = dns_record_id,
                              ![id].dns_zone = dns_zone]
             ELSE tbl,
     ret |-> TRUE]

\* what the last call says a fetch of id returns, when the last call was about id
Expected(id) == IF "args" \in DOMAIN last /\ last.id = id THEN last.args ELSE None

\* the record of a call with the row a fetch is to return after it
StoreCall(op, id, ok, ret, args) ==
    [seq |-> 1 - last.seq, op |-> op, id |-> id, days |-> 0, user |-> 0, name |-> "",
     ok |-> ok, ret |-> ret, from |-> None, n |-> 1, args |-> args]

RcSave(id, u, d, full) ==
    /\ instances' = SaveInstanceRow(instances, SaveArgs(id, u, d, now, full))
    /\ last' = StoreCall("save_instance", id, TRUE, None,
                          SaveInstanceRow(instances, SaveArgs(id, u, d, now, full))[id])
    /\ UNCHANGED <<now, clusters, doDroplets, doClusters, pa, pb, calls, cache>>

RcUpdateDns(id, sub, zone) ==
    /\ LET r == UpdateInstanceDns(instances, id, Val(sub \o "." \o zone), Val(id + 9000),
                                   Val(zone))
           e == Expected(id)
       IN  /\ instances' = r.tbl
           /\ last' = StoreCall("update_instance_dns", id, r.ret, None,
                                 IF e = None THEN None
                                 ELSE [e EXCEPT !.domain_name = Val(sub \o "." \o zone),
                                                !.dns_record_id = Val(id + 9000),
                                                !.dns_zone = Val(zone)])
    /\ UNCHANGED <<now, clusters, doDroplets, doClusters, pa, pb, calls, cache>>

RcGet(id) ==
    /\ last' = StoreCall("get_instance_by_id", id, GetInstanceById(instances, id) # None,
                          GetInstanceById(instances, id), Expected(id))
    /\ UNCHANGED <<now, instances, clusters, doDroplets, doClusters, pa, pb, calls, cache>>

RecordNext ==
    \/ \E id \in DropletIds, u \in Users : RcSave(id, u, 1, u = Owner)
    \/ \E id \in DropletIds \cup {MaxDroplets + 1}, sub \in {"a", "b"} :
          RcUpdateDns(id, sub, "example.com")
    \/ \E id \in DropletIds \cup {MaxDroplets + 1} : RcGet(id)
    \/ \E id \in DropletIds \cup {MaxDroplets + 1} : StExtendInstance(id, 3)
    \/ \E id \in DropletIds : StDeleteInstance(id)

SpecRecord == Init /\ [][RecordNext]_vars

\* C23: extend_instance_expiration and update_instance_dns, called for an id that has no
\* row, return something else than they return after a successful update.
C23_AbsenceReported ==
    (/\ last.op \in {"extend_instance", "update_instance_dns"}
     /\ GetInstanceById(instances, last.id) = None) => ~ last.ok

-----------------------------------------------------------------------------
(* Creation of a droplet with a DNS record *)

\* the answers to POST domains/{domain}/records: a 2xx with the domain_record the
\* provider's interface promises, or an HTTP error
DnsResults == {"ok", "failed"}

\* create_dns_record: {"success": True, "record_id": record.get("id"),
\* "fqdn": subdomain.domain}, or {"success": False} after an httpx.HTTPError
CreateDnsRecord(id, zone, sub, res) ==
    IF res = "ok"
    THEN [success |-> TRUE, record_id |-> Val(id + 9000), fqdn |-> Val(sub \o "." \o zone)]
    ELSE [success |-> FALSE, record_id |-> None, fqdn |-> None]

\* _create_droplet_and_respond up to its second await: create_droplet, then the
\* request for the DNS record when a zone and a subdomain were chosen
DcCreate(s, u, d, outcome, zone, sub) ==
    /\ calls[s].pc = "idle"
    /\ DropletCreated(u, d, outcome)
    /\ calls' = IF outcome = "ok" /\ zone # None /\ sub # None
                THEN [calls EXCEPT ![s] = [pc |-> "dns", user |-> u,
                                           id |-> FreshId(doDroplets),
                                           zone |-> zone, sub |-> sub]]
                ELSE calls
    /\ UNCHANGED <<now, clusters, doClusters, pa, pb, last, cache>>

\* the DNS request returns: update_instance_dns on success, the reply to the user
DcDns(s, res) ==
    /\ calls[s].pc = "dns"
    /\ LET c == calls[s]
           r == CreateDnsRecord(c.id, c.zone[1], c.sub[1], res)
       IN  /\ instances' = IF r.success
                           THEN UpdateInstanceDns(instances, c.id, r.fqdn, r.record_id,
                                                  c.zone).tbl
                           ELSE instances
           /\ last' = StoreCall("create_dns_record", c.id, r.success, r, None)
    /\ calls' = [calls EXCEPT ![s] = CallIdle]
    /\ UNCHANGED <<now, clusters, doDroplets, doClusters, pa, pb, cache>>

DnsNext ==
    \/ \E s \in Slots, u \in Users, o \in CreateOutcomes, zone \in {None, Val("example.com")} :
          DcCreate(s, u, 1, o, zone, IF zone = None THEN None ELSE Val("a"))
    \/ \E s \in Slots, res \in DnsResults : DcDns(s, res)
    \/ \E id \in DropletIds, u \in Users : HandleExtend(id, 3, u)
    \/ \E id \in DropletIds, u \in Users : HandleDelete(id, u, "ok")

SpecDns == Init /\ [][DnsNext]_vars

-----------------------------------------------------------------------------
(* The rows the sweep is handed *)

\* the status column of k8s_clusters
RowStatuses == {"provisioning", "running", "errored", "deleted"}

DueSaveInstance(id, d, u) ==
    /\ instances[id] = NoRow
    /\ instances' = SaveInstance(instances, id, StrFTime(PlusDays(now, d)), u)
    /\ UNCHANGED <<now, clusters, doDroplets, doClusters, pa, pb, calls, last, cache>>

DueSaveCluster(id, d, u, st) ==
    /\ clusters[id] = NoRow
    /\ clusters' = SaveK8sCluster(clusters, id, "c" \o ToString(id), u, st, "",
                                  StrFTime(PlusDays(now, d)))
    /\ UNCHANGED <<now, instances, doDroplets, doClusters, pa, pb, calls, last, cache>>

DueSetStatus(id, st) ==
    /\ clusters[id] # NoRow
    /\ clusters' = UpdateK8sClusterStatus(clusters, id, st, KeepEndpoint).tbl
    /\ UNCHANGED <<now, instances, doDroplets, doClusters, pa, pb, calls, last, cache>>

\* get_expiring_instances() and get_expiring_k8s_clusters(), as the sweep calls them
DueQuery ==
    /\ last' = [op |-> "get_expiring", at |-> now,
                vms |-> GetExpiringInstances(instances, now),
                k8s |-> GetExpiringK8sClusters(clusters, now)]
    /\ UNCHANGED <<now, instances, clusters, doDroplets, doClusters, pa, pb, calls, cache>>

\* the instants the clock is moved to: one second and two days after the start
DueInstants == {1, 2 * SecondsPerDay}

DueNext ==
    \/ \E t \in DueInstants : Tick(t)
    \/ \E id \in DropletIds, d \in Durations : DueSaveInstance(id, d, Owner)
    \/ \E id \in ClusterIds, st \in RowStatuses : DueSaveCluster(id, 1, Owner, st)
    \/ \E id \in ClusterIds : DueSetStatus(id, "deleted")
    \/ DueQuery

SpecDue == Init /\ [][DueNext]_vars

\* the ids of the rows a query returned
Returned(rows) == {rows[k].id : k \in 1..Len(rows)}

\* a query has just returned rows at instant t
Queried(l, t) == l.op = "get_expiring" /\ l.at = t

\* C26: the two queries return exactly the rows that expire at or before now + 24 hours,
\* each once and with its columns; for clusters, exactly those of them whose status is
\* provisioning, running or errored, and none whose status is deleted.
C26_DueSetQuery ==
    [][(last' # last /\ Queried(last', now)) =>
        /\ Returned(last'.vms) =
              {i \in DropletIds : /\ instances[i] # NoRow
                                  /\ StrPTime(instances[i].expiration_date)
                                        <= now + 24 * 3600}
        /\ Returned(last'.k8s) =
              {i \in ClusterIds : /\ clusters[i] # NoRow
                                  /\ StrPTime(clusters[i].expiration_date)
                                        <= now + 24 * 3600
                                  /\ clusters[i].status \in {"provisioning", "running",
                                                              "errored"}}
        /\ Len(last'.vms) = Cardinality(Returned(last'.vms))
        /\ Len(last'.k8s) = Cardinality(Returned(last'.k8s))
        /\ \A k \in 1..Len(last'.vms) : last'.vms[k].row = instances[last'.vms[k].id]
        /\ \A k \in 1..Len(last'.k8s) : last'.k8s[k].row = clusters[last'.k8s[k].id]
      ]_vars

\* the rows are as one query saw them: it returned an expired droplet and an errored
\* cluster that expires in exactly 24 hours, and left out a droplet that expires one
\* second after the 24 hours and an expired cluster whose status is deleted
C26_Witness ==
    /\ Queried(last, now)
    /\ \A k \in 1..Len(last.vms) : last.vms[k].row = instances[last.vms[k].id]
    /\ \A k \in 1..Len(last.k8s) : last.k8s[k].row = clusters[last.k8s[k].id]
    /\ \E i, j \in DropletIds :
          /\ i \in Returned(last.vms) /\ StrPTime(instances[i].expiration_date) < now
          /\ j \notin Returned(last.vms) /\ instances[j] # NoRow
          /\ StrPTime(instances[j].expiration_date) = now + 24 * 3600 + 1
    /\ \E i, j \in ClusterIds :
          /\ i \in Returned(last.k8s) /\ clusters[i].status = "errored"
          /\ StrPTime(clusters[i].expiration_date) = now + 24 * 3600
          /\ j \notin Returned(last.k8s) /\ clusters[j] # NoRow
          /\ clusters[j].status = "deleted"
          /\ StrPTime(clusters[j].expiration_date) < now

-----------------------------------------------------------------------------
(* The cached lookups: get_sizes and _get_k8s_options *)

SIZE_CACHE_TTL == 3600
K8S_OPTIONS_CACHE_TTL == 3600

Lookups == {"sizes", "k8s_options"}

CacheTtl(c) == IF c = "sizes" THEN SIZE_CACHE_TTL ELSE K8S_OPTIONS_CACHE_TTL

\* the instants of the lookups: around one and two hours after the start
CacheInstants == {h * SIZE_CACHE_TTL + o : h \in 1..2, o \in {-1, 0, 1}}

\* what the provider answers at instant t, and the {} of a failed fetch
Fetched(c, t) == <<c, t>>
EmptyResult == <<"{}">>

FetchResults == {"ok", "failed"}

\* a cache that also answers when its data is exactly one hour old
CacheFreshInclusive(e, c, t) == e.data # None /\ t - e.timestamp <= CacheTtl(c)

\* if cache["data"] is not None and (time.time() - cache["timestamp"]) < TTL
CacheFresh(e, c, t) == e.data # None /\ t - e.timestamp < CacheTtl(c)

\* get_sizes / _get_k8s_options on cache entry e at instant t: the data returned,
\* whether the provider was asked, the cache entry afterwards
Lookup(e, c, t, res) ==
    IF CacheFresh(e, c, t) THEN [ret |-> e.data, requested |-> FALSE, entry |-> e]
    ELSE IF res = "ok"
    THEN [ret |-> Fetched(c, t), requested |-> TRUE,
          entry |-> [data |-> Fetched(c, t), timestamp |-> t]]
    ELSE [ret |-> EmptyResult, requested |-> TRUE, entry |-> e]

\* the successful fetches so far, as the last call recorded them
Good == IF "good" \in DOMAIN last THEN last.good ELSE [c \in Lookups |-> None]

\* one lookup; the record keeps the last successful fetch of each lookup before the
\* call (was) and after it (good)
CachedLookup(c, res) ==
    /\ LET r == Lookup(cache[c], c, now, res)
       IN  /\ cache' = [cache EXCEPT ![c] = r.entry]
           /\ last' = [op |-> c, at |-> now, res |-> res, ret |-> r.ret,
                       requested |-> r.requested, before |-> cache[c], was |-> Good,
                       good |-> IF r.requested /\ res = "ok"
                                THEN [Good EXCEPT ![c] = [at |-> now, data |-> r.ret]]
                                ELSE Good]
    /\ UNCHANGED <<now, instances, clusters, doDroplets, doClusters, pa, pb, calls>>

\* time passes between two lookups
CacheWait(t) ==
    /\ t > now
    /\ now' = t
    /\ UNCHANGED <<instances, clusters, doDroplets, doClusters, pa, pb, calls, last, cache>>

CacheNext ==
    \/ \E c \in Lookups, res \in FetchResults : CachedLookup(c, res)
    \/ \E t \in CacheInstants : CacheWait(t)

SpecCache == Init /\ [][CacheNext]_vars

-----------------------------------------------------------------------------
(* The status of a cluster's row at its creation *)

\* C28: while only creations, extensions and deletions run, every row of table clusters
\* belongs to a cluster the provider created and has status provisioning, whatever
\* state the create response reported; a failed create leaves no row.
C28_StoredProvisioning ==
    /\ \A id \in ClusterIds :
          clusters[id] # NoRow =>
              /\ doClusters[id] # "none"
              /\ clusters[id].status = "provisioning"
    /\ \A s \in Slots :
          (calls[s].pc = "reply" /\ ~ calls[s].success /\ calls[s].cluster_id = 0) =>
              \A id \in ClusterIds :
                  clusters[id] # NoRow => clusters[id].cluster_name # calls[s].name

-----------------------------------------------------------------------------
(* The sweep at its fixed interval *)

NOTIFY_INTERVAL_SECONDS == 43200

\* the instants of the clock: every run of the job in two days and a half, one second
\* and five minutes after it
IvInstants == {k * NOTIFY_INTERVAL_SECONDS + o : k \in 0..5, o \in {0, 1, 300}}

\* run_repeating(notify_and_check_instances, interval=NOTIFY_INTERVAL_SECONDS): the
\* first run one interval after the start, then every interval
SweepDue(t) == t > 0 /\ t % NOTIFY_INTERVAL_SECONDS = 0

\* the start of the latest sweep and the warnings sent so far for each resource
Iv == IF "started" \in DOMAIN last THEN last
      ELSE [op |-> "interval", started |-> 0,
            warns |-> [r \in ({"vm"} \X DropletIds) \cup ({"k8s"} \X ClusterIds) |-> 0]]

\* time passes, but not past a run of the job, and during a sweep no more than the
\* longest wait for one snapshot
IvTick(t) ==
    /\ t \in IvInstants
    /\ t > now
    /\ pa.pc # "idle" => t - Iv.started <= WaitTimeout
    /\ SweepDue(now) => Iv.started = now
    /\ \A u \in IvInstants : (now < u /\ u < t) => ~ SweepDue(u)
    /\ now' = t
    /\ UNCHANGED <<instances, clusters, doDroplets, doClusters, pa, pb, calls, last, cache>>

\* the job queue starts the sweep
IvStart ==
    /\ SweepDue(now)
    /\ Iv.started # now
    /\ pa.pc = "idle"
    /\ pa' = VmLoop(GetExpiringInstances(instances, now), {}, now, clusters)
    /\ last' = [Iv EXCEPT !.started = now]
    /\ UNCHANGED <<now, instances, clusters, doDroplets, doClusters, pb, calls, cache>>

\* the warning branch of either loop, counted
IvWarn(sent) ==
    /\ pa.pc \in {"vm_warn", "k8s_warn"}
    /\ pa' = EndItem(pa, [pa.cur EXCEPT !.notes = IF sent THEN @ \cup {"warning"} ELSE @])
    /\ last' = [Iv EXCEPT !.warns[<<pa.cur.kind, pa.cur.id>>] = @ + 1]
    /\ UNCHANGED <<now, instances, clusters, doDroplets, doClusters, pb, calls, cache>>

IntervalNext ==
    \/ \E t \in IvInstants : IvTick(t)
    \/ now <= 2 * NOTIFY_INTERVAL_SECONDS + 1 /\ CreateDroplet(Owner, 1, "ok")
    \/ now <= 2 * NOTIFY_INTERVAL_SECONDS + 1 /\ KcStart(1, Owner, "alpha", 1)
    \/ KcRespond(1, <<"2xx", "2xx", "2xx">>, "provisioning")
    \/ KcReply(1)
    \/ IvStart
    \/ PaNext
    \/ IvWarn(TRUE)
    \/ PaSnapshot("ok")
    \/ PaWaitAction("completed")
    \/ PaDeleteVm("ok")
    \/ PaDeleteK8s(<<"2xx", "2xx", "2xx">>)

SpecInterval == Init /\ [][IntervalNext]_vars

\* C29: with the sweep started every 12 hours and no extension, no droplet and no
\* cluster is sent more than 2 warnings.
C29_AtMostTwoWarnings ==
    \A r \in DOMAIN Iv.warns : Iv.warns[r] <= 2

-----------------------------------------------------------------------------
(* The sweep and the creator's extension of a droplet it has in its list *)

RaceNext ==
    \/ \E t \in Instants : Tick(t)
    \/ CreateDroplet(Owner, 1, "ok")
    \/ \E id \in DropletIds : CbExtend("handle_extend", id, 3, Owner, "", "ok")
    \/ PassAStart
    \/ PaNext
    \/ PaWarn(TRUE)
    \/ \E res \in SnapshotResults : PaSnapshot(res)
    \/ \E res \in {"completed", "Timeout"} : PaWaitAction(res)
    \/ \E res \in DeleteResults : PaDeleteVm(res)

SpecRace == Init /\ [][RaceNext]_vars

\* C30: the sweep takes each droplet and its expiration from the list it read at its
\* start: the next item is the head of that list, classified by the expiration in it;
\* an item classified for deletion goes through the snapshot to the delete request
\* without the row being read again, and the delete request removes the droplet and its
\* row when the provider accepts it, also when the row has been extended meanwhile.
C30_SweepActsOnSnapshot ==
    [][/\ (pa.pc = "next" /\ pa.cur.kind = "vm" /\ pa.queue # <<>> /\ pa' # pa) =>
             /\ pa'.cur.id = Head(pa.queue).id
             /\ pa'.cur.left = StrPTime(Head(pa.queue).row.expiration_date) - now
             /\ pa'.cur.act = Classify(pa'.cur.left)
             /\ pa'.cur.act = "delete" => pa'.pc = "vm_snap"
       /\ (pa.pc = "vm_snap" /\ pa' # pa) => pa'.pc \in {"vm_wait", "vm_delete"}
       /\ (pa.pc = "vm_wait" /\ pa' # pa) => pa'.pc = "vm_delete"
       /\ (pa.pc = "vm_delete" /\ pa' # pa) =>
             /\ pa'.pc = "next"
             /\ pa'.cur.del \in DeleteResults
             /\ pa'.cur.del = "ok" =>
                   /\ instances'[pa.cur.id] = NoRow
                   /\ doDroplets'[pa.cur.id] = "gone"
      ]_vars

\* the sweep has deleted a droplet that its list had as expired and that its creator
\* had extended by 3 days, to a date after now, while the sweep was running
C30_Witness ==
    /\ pa.pc = "next"
    /\ pa.cur.kind = "vm" /\ pa.cur.act = "delete" /\ pa.cur.del = "ok"
    /\ pa.cur.left <= 0
    /\ last.op = "handle_extend" /\ last.id = pa.cur.id /\ last.changed /\ last.ok
    /\ StrPTime(last.ret) > now
    /\ StrPTime(last.ret) - 3 * SecondsPerDay = now + pa.cur.left
    /\ instances[pa.cur.id] = NoRow
    /\ doDroplets[pa.cur.id] = "gone"

-----------------------------------------------------------------------------
(* The order of the steps on the way to a deletion *)

\* C31: the sweep sends the delete request of a droplet only after the request for the
\* snapshot has returned and, when the snapshot was started, after its wait has ended;
\* snapshot_created is never emitted after auto_deleted for the same droplet; a cluster
\* goes from its classification straight to the delete request, with no snapshot.
C31_DeleteAfterSnapshot ==
    [][/\ (pa'.pc = "vm_delete" /\ pa' # pa) =>
             /\ pa.pc \in {"vm_snap", "vm_wait"}
             /\ pa'.cur.snap \notin {"-", "started"}
             /\ pa.pc = "vm_snap" => pa'.cur.snap \in {"create_failed", "create_raised"}
             /\ pa.pc = "vm_wait" => (pa.cur.snap = "started" /\ pa'.cur.snap \in WaitResults)
       /\ (pa' # pa /\ pa'.cur # None /\ pa'.cur.kind = "vm" /\ pa'.cur.del # "-") =>
             (pa.pc \in {"vm_delete", "next"} /\ pa.cur.snap \notin {"-", "started"})
       /\ (pa' # pa /\ pa'.cur # None /\ pa.cur # None /\ pa'.cur.id = pa.cur.id
             /\ pa'.cur.kind = pa.cur.kind
             /\ "snapshot_created" \in pa'.cur.notes \ pa.cur.notes) =>
                 (pa.pc = "vm_wait" /\ "auto_deleted" \notin pa'.cur.notes)
       /\ (pa' # pa /\ pa'.cur # None /\ pa'.cur.kind = "k8s") =>
             /\ pa'.cur.snap = "-"
             /\ "snapshot_created" \notin pa'.cur.notes
             /\ pa'.pc \in {"k8s_warn", "k8s_delete", "next"}
             /\ (pa'.cur.act = "delete" /\ pa'.cur.del = "-") => pa'.pc = "k8s_delete"
      ]_vars

\* a droplet was deleted after its snapshot completed, with both notifications, in the
\* sweep that then deleted a cluster
C31_Witness ==
    /\ pa.pc = "next"
    /\ pa.cur.kind = "k8s" /\ pa.cur.act = "delete" /\ pa.cur.del = "ok"
    /\ pa.cur.snap = "-"
    /\ \E d \in pa.done : d.kind = "vm" /\ d.act = "delete" /\ d.ok
    /\ \A i \in DropletIds : instances[i] = NoRow
    /\ \E i \in DropletIds : doDroplets[i] = "gone"

-----------------------------------------------------------------------------
(* Rows whose expiration is not a date *)

\* a text that sorts before every date and that strptime rejects: a time of day of 25 hours
BadDate == <<0, 25 * 3600>>

\* the rows are edited from outside the program
CorruptInstance(id) ==
    /\ instances[id] # NoRow
    /\ instances' = [instances EXCEPT ![id].expiration_date = BadDate]
    /\ UNCHANGED <<now, clusters, doDroplets, doClusters, pa, pb, calls, last, cache>>

CorruptCluster(id) ==
    /\ clusters[id] # NoRow
    /\ clusters' = [clusters EXCEPT ![id].expiration_date = BadDate]
    /\ UNCHANGED <<now, instances, doDroplets, doClusters, pa, pb, calls, last, cache>>

SkipNext ==
    \/ \E t \in Instants : Tick(t)
    \/ CreateDroplet(Owner, 1, "ok")
    \/ KcStart(1, Owner, "alpha", 1)
    \/ KcRespond(1, <<"2xx", "2xx", "2xx">>, "provisioning")
    \/ KcReply(1)
    \/ \E id \in DropletIds : CorruptInstance(id)
    \/ \E id \in ClusterIds : CorruptCluster(id)
    \/ PassAStart
    \/ PaNext
    \/ PaWarn(TRUE)
    \/ PaSnapshot("ok")
    \/ PaWaitAction("completed")
    \/ PaDeleteVm("ok")
    \/ PaDeleteK8s(<<"2xx", "2xx", "2xx">>)

SpecSkip == Init /\ [][SkipNext]_vars

\* the item the loop has just taken, if the step took one: the head of the list left,
\* or the head of the list the step has read
Taken ==
    IF pa' = pa \/ pa'.cur = None \/ pa.pc \notin {"idle", "next"} THEN None
    ELSE IF pa.pc = "next" /\ pa.queue # <<>> THEN Head(pa.queue)
    ELSE IF pa'.cur.kind = "vm" THEN [id |-> pa'.cur.id, row |-> instances[pa'.cur.id]]
    ELSE [id |-> pa'.cur.id, row |-> clusters[pa'.cur.id]]

\* C32: an item whose expiration strptime rejects ends at once: no warning, no
\* snapshot, no delete request, no change of a table or at the provider; the loop then
\* goes on with the next item of its list, which is handled by its own expiration.
C32_UnparsableSkipped ==
    [][/\ (Taken # None /\ ~ Parsable(Taken.row.expiration_date)) =>
             /\ pa'.pc = "next"
             /\ pa'.cur.id = Taken.id
             /\ pa'.cur.act = "unparsable"
             /\ pa'.cur.snap = "-" /\ pa'.cur.del = "-" /\ pa'.cur.notes = {}
             /\ UNCHANGED <<instances, clusters, doDroplets, doClusters>>
       /\ (Taken # None /\ Parsable(Taken.row.expiration_date)) =>
             /\ pa'.cur.id = Taken.id
             /\ pa'.cur.act = Classify(StrPTime(Taken.row.expiration_date) - now)
       /\ (pa.pc = "next" /\ pa.cur.act = "unparsable" /\ pa' # pa) =>
             /\ UNCHANGED <<instances, clusters, doDroplets, doClusters>>
             /\ pa.queue # <<>> => (pa'.cur # None /\ pa'.cur.id = Head(pa.queue).id)
      ]_vars

\* after a droplet with an unparsable expiration was skipped, the next droplet of the
\* same sweep is at its deletion, and the skipped row and its droplet are still there
C32_Witness ==
    /\ pa.pc = "vm_delete"
    /\ \E d \in pa.done :
          /\ d.kind = "vm" /\ d.act = "unparsable" /\ d.id # pa.cur.id
          /\ instances[d.id] # NoRow
          /\ instances[d.id].expiration_date = BadDate
          /\ doDroplets[d.id] = "active"

-----------------------------------------------------------------------------
(* The number of requests of one call *)

\* C33: one call of a cluster operation sends at most MAX_RETRIES = 3 requests, whatever
\* the answers are, and ends with a response or with an exception; answered 429 three
\* times it sends three requests, sleeps after each and raises RuntimeError.
C33_AttemptBound ==
    (last.op \in K8sOps /\ last.resps # <<>>) =>
        /\ 1 <= last.requests /\ last.requests <= MAX_RETRIES
        /\ last.requests <= 3
        /\ Len(last.sleeps) <= last.requests
        /\ last.outcome \in {"response", "HTTPStatusError", "TimeoutException", "RuntimeError"}
        /\ last.outcome = "response" <=> last.resps[last.requests] = "2xx"
        /\ (\A k \in DOMAIN last.resps : last.resps[k] = "429") =>
              /\ last.requests = 3
              /\ Len(last.sleeps) = 3
              /\ last.outcome = "RuntimeError"

\* delete_k8s_cluster answered 429 three times: three requests, then RuntimeError
C33_Witness ==
    /\ last.op = "delete_k8s_cluster"
    /\ last.resps = <<"429", "429", "429">>
    /\ last.requests = 3
    /\ last.sleeps = <<1, 2, 4>>
    /\ last.outcome = "RuntimeError"

-----------------------------------------------------------------------------
(* The droplet the provider made and the row of create_droplet *)

\* C34: whenever the provider confirmed the creation inside create_droplet, the droplet
\* has a row with an expiration when create_droplet returns: with an address assigned,
\* with no address in any poll, and with a poll answered by an error.
C34_NoUntrackedVm ==
    [][(last' # last /\ last'.op = "create_droplet" /\ last'.outcome = "response")
          => /\ GetInstanceById(instances', last'.id) # None
             /\ GetInstanceById(instances', last'.id).expiration_date
                    = StrFTime(PlusDays(now, last'.days))]_vars

-----------------------------------------------------------------------------
(* A creator's deletion and the sweep's deletion of the same droplet *)

\* the deletion events sent so far and, by droplet, the rows delete_instance removed
Deletions ==
    IF "events" \in DOMAIN last THEN last
    ELSE [op |-> "deletions", events |-> <<>>, removed |-> [i \in DropletIds |-> 0]]

\* delete_instance has removed the row of the droplet, or found none; then the event
Removed(id, action) ==
    [Deletions EXCEPT !.events = Append(@, [id |-> id, action |-> action]),
                      !.removed[id] = IF DeleteInstance(instances, id).ret THEN @ + 1 ELSE @]

\* handle_delete, manage_delete_confirm up to the await of delete_droplet: the row is
\* read, the button handler checks the creator
MdStart(s, h, id, u) ==
    /\ calls[s].pc = "idle"
    /\ h \in {"handle_delete", "manage_delete_confirm"}
    /\ instances[id] # NoRow
    /\ Admits(h, instances, id, u)
    /\ calls' = [calls EXCEPT ![s] = [pc |-> "md_request", op |-> h, id |-> id, user |-> u]]
    /\ UNCHANGED <<now, instances, clusters, doDroplets, doClusters, pa, pb, last, cache>>

\* a delete request that takes the answer for a droplet already gone as a success
MdRequestToleratesGone(s, res) ==
    /\ calls[s].pc = "md_request"
    /\ res = "ok" => doDroplets[calls[s].id] # "none"
    /\ doDroplets' = IF res = "ok" THEN [doDroplets EXCEPT ![calls[s].id] = "gone"]
                     ELSE doDroplets
    /\ calls' = [calls EXCEPT ![s] = IF res = "ok" THEN [@ EXCEPT !.pc = "md_remove"]
                                     ELSE CallIdle]
    /\ UNCHANGED <<now, instances, clusters, doClusters, pa, pb, last, cache>>

\* delete_droplet of a handler: the DELETE request and raise_for_status; the provider
\* accepts it for a droplet it has and answers 404 for one that is gone; on a failure
\* the handler replies with the error and ends
MdRequest(s, res) ==
    /\ calls[s].pc = "md_request"
    /\ res = "ok" => doDroplets[calls[s].id] = "active"
    /\ doDroplets' = IF res = "ok" THEN [doDroplets EXCEPT ![calls[s].id] = "gone"]
                     ELSE doDroplets
    /\ calls' = [calls EXCEPT ![s] = IF res = "ok" THEN [@ EXCEPT !.pc = "md_remove"]
                                     ELSE CallIdle]
    /\ UNCHANGED <<now, instances, clusters, doClusters, pa, pb, last, cache>>

\* the client is closed, delete_instance, the reply, send_notification("deleted")
MdFinish(s) ==
    /\ calls[s].pc = "md_remove"
    /\ instances' = DeleteInstance(instances, calls[s].id).tbl
    /\ last' = Removed(calls[s].id, "deleted")
    /\ calls' = [calls EXCEPT ![s] = CallIdle]
    /\ UNCHANGED <<now, clusters, doDroplets, doClusters, pa, pb, cache>>

\* delete_droplet of the sweep: the DELETE request and raise_for_status; a failure is
\* logged and ends the item
PaDeleteRequest(res) ==
    /\ pa.pc = "vm_delete"
    /\ res = "ok" => doDroplets[pa.cur.id] = "active"
    /\ doDroplets' = IF res = "ok" THEN [doDroplets EXCEPT ![pa.cur.id] = "gone"]
                     ELSE doDroplets
    /\ pa' = IF res = "ok" THEN [pa EXCEPT !.pc = "vm_remove"]
             ELSE EndItem(pa, [pa.cur EXCEPT !.del = res])
    /\ UNCHANGED <<now, instances, clusters, doClusters, pb, calls, last, cache>>

\* the client is closed, delete_instance, send_notification("auto_deleted")
PaDeleteFinish ==
    /\ pa.pc = "vm_remove"
    /\ instances' = DeleteInstance(instances, pa.cur.id).tbl
    /\ last' = Removed(pa.cur.id, "auto_deleted")
    /\ pa' = EndItem(pa, [pa.cur EXCEPT !.del = "ok", !.notes = @ \cup {"auto_deleted"}])
    /\ UNCHANGED <<now, clusters, doDroplets, doClusters, pb, calls, cache>>

DeleteRaceNext ==
    \/ \E t \in Instants : Tick(t)
    \/ CreateDroplet(Owner, 1, "ok")
    \/ \E s \in Slots, h \in {"handle_delete", "manage_delete_confirm"}, id \in DropletIds :
          MdStart(s, h, id, Owner)
    \/ \E s \in Slots, res \in DeleteResults : MdRequest(s, res)
    \/ \E s \in Slots : MdFinish(s)
    \/ PassAStart
    \/ PaNext
    \/ PaWarn(TRUE)
    \/ \E res \in {"ok", "failed"} : PaSnapshot(res)
    \/ \E res \in {"completed", "Timeout"} : PaWaitAction(res)
    \/ \E res \in DeleteResults : PaDeleteRequest(res)
    \/ PaDeleteFinish

SpecDeleteRace == Init /\ [][DeleteRaceNext]_vars

\* the deletion events sent for a droplet
EventsOf(id) == {k \in DOMAIN Deletions.events : Deletions.events[k].id = id}

\* C35: with a provider that accepts the delete of a droplet once and reports it gone
\* afterwards, the creator's deletion (handle_delete, manage_delete_confirm) and the
\* sweep's deletion of the same droplet, interleaved in any way, send at most one of
\* deleted and auto_deleted for it, and its row is removed exactly once, by the one
\* whose request was accepted.
C35_OneDeletionEvent ==
    \A id \in DropletIds :
        /\ Cardinality(EventsOf(id)) <= 1
        /\ Deletions.removed[id] <= 1
        /\ EventsOf(id) # {} => /\ Deletions.removed[id] = 1
                                /\ instances[id] = NoRow
                                /\ doDroplets[id] = "gone"
        /\ Deletions.removed[id] = 1 => EventsOf(id) # {}
        /\ (instances[id] # NoRow /\ doDroplets[id] = "gone") =>
               \/ pa.pc = "vm_remove" /\ pa.cur.id = id
               \/ \E s \in Slots : calls[s].pc = "md_remove" /\ calls[s].id = id

\* the sweep had the droplet in its list and made its snapshot; meanwhile a handler's
\* request was accepted, the sweep's request was refused, and the one event is deleted
C35_Witness ==
    /\ pa.pc = "next" /\ pa.cur.kind = "vm" /\ pa.cur.act = "delete"
    /\ pa.cur.snap = "completed"
    /\ pa.cur.del = "failed" /\ "auto_deleted" \notin pa.cur.notes
    /\ Deletions.events = <<[id |-> pa.cur.id, action |-> "deleted"]>>
    /\ Deletions.removed[pa.cur.id] = 1
    /\ instances[pa.cur.id] = NoRow

-----------------------------------------------------------------------------
(* The conversations of one user and the data they share *)

\* the conversations of the user in one chat, by handler: droplet_conv, manage_conv,
\* k8s_create_conv (per_user and per_chat: one state for each chat)
Chat(s) ==
    IF "droplet" \in DOMAIN calls[s] THEN calls[s]
    ELSE [pc |-> "idle", droplet |-> "END", manage |-> "END", k8s |-> "END"]

\* context.user_data of the user, the same dict in every chat: the keys it holds, of
\* those whose absence changes what a handler does
UserData == IF "data" \in DOMAIN last THEN last.data ELSE {}

\* data["ssh_key_ids"], data["droplet_type"], data["image"], data["duration"]
DropletParams == {"ssh_key_ids", "droplet_type", "image", "duration"}

\* data["k8s_version"], data["k8s_node_size"], data["k8s_duration"]
K8sParams == {"k8s_version", "k8s_node_size", "k8s_duration"}

\* a handler has run in a chat: the state it returns, the user data it leaves
Handled(s, conv, state, h, data, result) ==
    /\ calls' = [calls EXCEPT ![s] = [Chat(s) EXCEPT ![conv] = state]]
    /\ last' = [op |-> IF result = "" THEN "handler" ELSE h, data |-> data, result |-> result]

\* droplet_entry (allow_reentry), droplet_confirm_ssh_keys, droplet_select_image,
\* droplet_select_dns_zone, droplet_input_subdomain, droplet_select_type: each stores
\* its answer and returns the next state
DropletStep(s, h) ==
    /\ LET st == Chat(s).droplet
       IN  CASE h = "droplet_entry" ->
                  Handled(s, "droplet", "SELECT_SSH_KEY", h,
                          UserData \cup {"selected_ssh_keys"}, "")
             [] h = "droplet_confirm_ssh_keys" ->
                  /\ st = "SELECT_SSH_KEY"
                  /\ IF "selected_ssh_keys" \in UserData
                     THEN Handled(s, "droplet", "SELECT_IMAGE", h,
                                  (UserData \ {"selected_ssh_keys"}) \cup {"ssh_key_ids"}, "")
                     ELSE Handled(s, "droplet", "SELECT_SSH_KEY", h, UserData, "")
             [] h = "droplet_select_image" ->
                  /\ st = "SELECT_IMAGE"
                  /\ Handled(s, "droplet", "SELECT_DNS_ZONE", h, UserData \cup {"image"}, "")
             [] h = "droplet_select_dns_zone" ->
                  /\ st = "SELECT_DNS_ZONE"
                  /\ Handled(s, "droplet", "INPUT_SUBDOMAIN", h,
                             (UserData \ {"subdomain"}) \cup {"dns_zone"}, "")
             [] h = "droplet_select_dns_zone(skip)" ->
                  /\ st = "SELECT_DNS_ZONE"
                  /\ Handled(s, "droplet", "SELECT_TYPE", h,
                             UserData \ {"dns_zone", "subdomain"}, "")
             [] h = "droplet_input_subdomain" ->
                  /\ st = "INPUT_SUBDOMAIN"
                  /\ Handled(s, "droplet", "SELECT_TYPE", h, UserData \cup {"subdomain"}, "")
             [] h = "droplet_select_type" ->
                  /\ st = "SELECT_TYPE"
                  /\ Handled(s, "droplet", "SELECT_DURATION", h,
                             UserData \cup {"droplet_type"}, "")
    /\ UNCHANGED <<now, instances, clusters, doDroplets, doClusters, pa, pb, cache>>

DropletSteps ==
    {"droplet_entry", "droplet_confirm_ssh_keys", "droplet_select_image",
     "droplet_select_dns_zone", "droplet_select_dns_zone(skip)", "droplet_input_subdomain",
     "droplet_select_type"}

\* _create_droplet_and_respond: a missing key raises KeyError before create_droplet
\* and the conversation stays where it was; otherwise create_droplet, the reply,
\* user_data.clear(), END
CreateDropletAndRespond(s, h, from, data, outcome) ==
    IF DropletParams \subseteq data
    THEN /\ DropletCreated(Owner, 1, outcome)
         /\ Handled(s, "droplet", "END", h, {},
                    IF outcome = "ok" THEN "created" ELSE "failed")
    ELSE /\ Handled(s, "droplet", from, h, data, "KeyError")
         /\ UNCHANGED <<instances, doDroplets>>

\* droplet_select_duration: the duration; with a zone and a subdomain the droplet is
\* created at once, otherwise the name is asked for
DropletSelectDuration(s, outcome) ==
    /\ Chat(s).droplet = "SELECT_DURATION"
    /\ LET data == UserData \cup {"duration"}
       IN  IF {"dns_zone", "subdomain"} \subseteq data
           THEN CreateDropletAndRespond(s, "_create_droplet_and_respond", "SELECT_DURATION",
                                        data, outcome)
           ELSE /\ outcome = "ok"
                /\ Handled(s, "droplet", "INPUT_NAME", "droplet_select_duration", data, "")
                /\ UNCHANGED <<instances, doDroplets>>
    /\ UNCHANGED <<now, clusters, doClusters, pa, pb, cache>>

\* droplet_input_name with a valid name
DropletInputName(s, outcome) ==
    /\ Chat(s).droplet = "INPUT_NAME"
    /\ CreateDropletAndRespond(s, "_create_droplet_and_respond", "INPUT_NAME", UserData,
                               outcome)
    /\ UNCHANGED <<now, clusters, doClusters, pa, pb, cache>>

\* k8s_create_entry (allow_reentry), k8s_select_version, k8s_select_node_size,
\* k8s_select_node_count, k8s_select_duration
K8sStep(s, h) ==
    /\ LET st == Chat(s).k8s
       IN  CASE h = "k8s_create_entry" ->
                  Handled(s, "k8s", "K8S_SELECT_VERSION", h, UserData, "")
             [] h = "k8s_select_version" ->
                  /\ st = "K8S_SELECT_VERSION"
                  /\ Handled(s, "k8s", "K8S_SELECT_NODE_SIZE", h,
                             UserData \cup {"k8s_version"}, "")
             [] h = "k8s_select_node_size" ->
                  /\ st = "K8S_SELECT_NODE_SIZE"
                  /\ Handled(s, "k8s", "K8S_SELECT_NODE_COUNT", h,
                             UserData \cup {"k8s_node_size"}, "")
             [] h = "k8s_select_node_count" ->
                  /\ st = "K8S_SELECT_NODE_COUNT"
                  /\ Handled(s, "k8s", "K8S_SELECT_DURATION", h,
                             UserData, "")
             [] h = "k8s_select_duration" ->
                  /\ st = "K8S_SELECT_DURATION"
                  /\ Handled(s, "k8s", "K8S_INPUT_NAME", h,
                             UserData \cup {"k8s_duration"}, "")
    /\ UNCHANGED <<now, instances, clusters, doDroplets, doClusters, pa, pb, cache>>

K8sSteps ==
    {"k8s_create_entry", "k8s_select_version", "k8s_select_node_size",
     "k8s_select_node_count", "k8s_select_duration"}

\* k8s_input_name with a valid name, _create_k8s_cluster_and_respond: a missing key
\* raises KeyError before create_k8s_cluster; otherwise the cluster is created unless
\* the user has one of this name, then the reply, user_data.clear(), END. A text goes
\* to droplet_conv when that waits for one in the same chat
K8sInputName(s, name) ==
    /\ Chat(s).k8s = "K8S_INPUT_NAME"
    /\ Chat(s).droplet \notin {"INPUT_SUBDOMAIN", "INPUT_NAME"}
    /\ LET h == "_create_k8s_cluster_and_respond"
           made == /\ GetK8sClusterByName(clusters, name, Owner) = None
                   /\ \E i \in ClusterIds : doClusters[i] = "none"
       IN  IF ~(K8sParams \subseteq UserData)
           THEN /\ Handled(s, "k8s", "K8S_INPUT_NAME", h, UserData, "KeyError")
                /\ UNCHANGED <<clusters, doClusters>>
           ELSE IF made
           THEN LET id == FreshId(doClusters)
                IN  /\ doClusters' = [doClusters EXCEPT ![id] = "provisioning"]
                    /\ clusters' = SaveK8sCluster(clusters, id, name, Owner, "provisioning",
                                                  "", StrFTime(PlusDays(now, 1)))
                    /\ Handled(s, "k8s", "END", h, {}, "created")
           ELSE /\ Handled(s, "k8s", "END", h, {}, "failed")
                /\ UNCHANGED <<clusters, doClusters>>
    /\ UNCHANGED <<now, instances, doDroplets, pa, pb, cache>>

\* manage_entry (allow_reentry), manage_delete_entry, manage_cancel of the management
\* menu, which runs beside a creation in the same chat or in another one
ManageStep(s, h) ==
    /\ LET st == Chat(s).manage
       IN  CASE h = "manage_entry" ->
                  Handled(s, "manage", "MANAGE_ACTION", h, UserData, "")
             [] h = "manage_delete_entry" ->
                  /\ st = "MANAGE_ACTION"
                  /\ Handled(s, "manage", "MANAGE_CONFIRM_DELETE", h,
                             UserData, "")
             [] h = "manage_cancel" ->
                  /\ st = "MANAGE_CONFIRM_DELETE"
                  /\ Handled(s, "manage", "END", h, {}, "")
    /\ UNCHANGED <<now, instances, clusters, doDroplets, doClusters, pa, pb, cache>>

ManageSteps == {"manage_entry", "manage_delete_entry", "manage_cancel"}

\* /cancel: the fallback of the first conversation of the chat that is in a state, in
\* the order the handlers were added; user_data.clear(), END
Cancel(s) ==
    /\ LET c == Chat(s)
           conv == IF c.droplet # "END" THEN "droplet"
                   ELSE IF c.manage # "END" THEN "manage" ELSE "k8s"
       IN  /\ c[conv] # "END"
           /\ Handled(s, conv, "END", "cancel", {}, "")
    /\ UNCHANGED <<now, instances, clusters, doDroplets, doClusters, pa, pb, cache>>

\* the droplet creation runs in the first chat, the cluster creation in the last one,
\* the management menu and /cancel in each of them
ConversationNext ==
    \/ \E h \in DropletSteps : DropletStep(1, h)
    \/ \E o \in {"ok", "post_failed"} : DropletSelectDuration(1, o)
    \/ \E o \in {"ok", "post_failed"} : DropletInputName(1, o)
    \/ \E h \in K8sSteps : K8sStep(MaxCalls, h)
    \/ K8sInputName(MaxCalls, "alpha")
    \/ \E s \in Slots, h \in ManageSteps : ManageStep(s, h)
    \/ \E s \in Slots : Cancel(s)

SpecConversation == Init /\ [][ConversationNext]_vars

\* C36: whenever _create_droplet_and_respond or _create_k8s_cluster_and_respond runs,
\* every parameter it reads from the user data is there, whatever the user did in the
\* management menu, with /cancel, or in a creation started in another chat in between.
C36_ParamsComplete ==
    /\ last.op = "_create_droplet_and_respond" => last.result # "KeyError"
    /\ last.op = "_create_k8s_cluster_and_respond" => last.result # "KeyError"

-----------------------------------------------------------------------------
(* An extension in the warning window and the sweep after it *)

\* the instants of the clock: every half day of a day and a half, and one second after
ExInstants == {k * NOTIFY_INTERVAL_SECONDS + o : k \in 0..3, o \in {0, 1}}

\* the start of the latest sweep and the latest extension
Ex == IF "ext" \in DOMAIN last THEN last ELSE [op |-> "extensions", started |-> 0, ext |-> None]

\* time passes; during a sweep no more than the longest wait for one snapshot
ExTick(t) ==
    /\ t \in ExInstants
    /\ t > now
    /\ pa.pc # "idle" => t - Ex.started <= WaitTimeout
    /\ now' = t
    /\ UNCHANGED <<instances, clusters, doDroplets, doClusters, pa, pb, calls, last, cache>>

\* the job queue starts the sweep
ExStart ==
    /\ pa.pc = "idle"
    /\ pa' = VmLoop(GetExpiringInstances(instances, now), {}, now, clusters)
    /\ last' = [Ex EXCEPT !.started = now]
    /\ UNCHANGED <<now, instances, clusters, doDroplets, doClusters, pb, calls, cache>>

\* handle_extend, handle_k8s_extend pressed by the creator: the row, the creator check,
\* the extension; left is the time the resource had left when the button was pressed
ExExtend(kind, id, days) ==
    /\ LET tbl == IF kind = "vm" THEN instances ELSE clusters
           r == IF kind = "vm" THEN ExtendInstanceExpiration(instances, id, days, now)
                ELSE ExtendK8sClusterExpiration(clusters, id, days)
       IN  /\ id \in DOMAIN tbl
           /\ tbl[id] # NoRow
           /\ tbl[id].creator_id = Owner
           /\ WithinCap(tbl, id, days, MaxExtDays - 3)
           /\ instances' = IF kind = "vm" THEN r.tbl ELSE instances
           /\ clusters' = IF kind = "k8s" THEN r.tbl ELSE clusters
           /\ last' = [Ex EXCEPT !.ext = [kind |-> kind, id |-> id, days |-> days, at |-> now,
                                          left |-> StrPTime(tbl[id].expiration_date) - now,
                                          ret |-> r.ret]]
    /\ UNCHANGED <<now, doDroplets, doClusters, pa, pb, calls, cache>>

\* one droplet and one cluster, created in the first second
ExtendNext ==
    \/ \E t \in ExInstants : ExTick(t)
    \/ now <= 1 /\ (\A i \in DropletIds : doDroplets[i] = "none") /\ CreateDroplet(Owner, 1, "ok")
    \/ now <= 1 /\ KcStart(1, Owner, "alpha", 1)
    \/ KcRespond(1, <<"2xx", "2xx", "2xx">>, "provisioning")
    \/ KcReply(1)
    \/ \E id \in DropletIds, days \in ExtendDays : ExExtend("vm", id, days)
    \/ \E id \in ClusterIds, days \in ExtendDays : ExExtend("k8s", id, days)
    \/ ExStart
    \/ PaNext
    \/ PaWarn(TRUE)
    \/ PaSnapshot("ok")
    \/ PaWaitAction("completed")
    \/ PaDeleteVm("ok")
    \/ PaDeleteK8s(<<"2xx", "2xx", "2xx">>)

SpecExtend == Init /\ [][ExtendNext]_vars

\* the latest extension was one of 3 or 7 days of this resource, pressed while it had
\* between one second and 24 hours left, and it returned the new date
ExtendedInWindow(e, kind, id) ==
    /\ e # None
    /\ e.kind = kind /\ e.id = id
    /\ e.days \in {3, 7}
    /\ 0 < e.left /\ e.left <= WarnWindow
    /\ e.ret # None

\* C37: after a successful extension by 3 or 7 days of a droplet or a cluster that was
\* in its warning window, the sweep that starts next, up to 12 hours after the
\* extension, takes the resource neither into its warning branch nor into its deletion
\* branch: whenever the sweep classifies an item, the item is not that resource.
C37_ExtendedNotSwept ==
    [][(/\ pa.pc \in {"idle", "next"}
        /\ pa' # pa
        /\ pa'.pc # "idle"
        /\ ExtendedInWindow(Ex'.ext, pa'.cur.kind, pa'.cur.id)
        /\ Ex'.ext.at <= Ex'.started
        /\ Ex'.started - Ex'.ext.at <= NOTIFY_INTERVAL_SECONDS)
          => /\ pa'.cur.act \notin {"warn", "delete"}
             /\ pa'.pc \notin {"vm_warn", "vm_snap", "k8s_warn", "k8s_delete"}]_vars

\* a droplet with 12 hours left was extended by 3 days; the sweep that started 12 hours
\* later has run to its end and has had no item for it, and the row has the new date
C37_Witness ==
    /\ Ex.ext # None
    /\ Ex.ext.kind = "vm" /\ Ex.ext.days = 3 /\ Ex.ext.left = NOTIFY_INTERVAL_SECONDS
    /\ Ex.started = Ex.ext.at + NOTIFY_INTERVAL_SECONDS
    /\ now = Ex.started
    /\ pa.pc = "idle"
    /\ instances[Ex.ext.id] # NoRow
    /\ instances[Ex.ext.id].expiration_date = Ex.ext.ret
    /\ StrPTime(Ex.ext.ret) = Ex.ext.at + Ex.ext.left + 3 * SecondsPerDay
    /\ doDroplets[Ex.ext.id] = "active"

-----------------------------------------------------------------------------
(* Two runs of the poll at once *)

\* the run of the poll that is waiting at an await while the other one goes on
Parked == IF "tick" \in DOMAIN last THEN last.tick ELSE PbIdle

\* the event loop goes on with the other run of the poll: pb is the run that is going
\* on; a run that has not started is idle
PbSwitch ==
    /\ pb.pc # "idle" \/ Parked.pc # "idle"
    /\ pb' = Parked
    /\ last' = [op |-> "parked", tick |-> pb]
    /\ UNCHANGED <<now, instances, clusters, doDroplets, doClusters, pa, calls, cache>>

\* the state the provider reports for a cluster changes after its provisioning
ProviderChange(id, st) ==
    /\ doClusters[id] \in {"running", "degraded", "errored"}
    /\ st \in {"running", "degraded", "errored"}
    /\ st # doClusters[id]
    /\ doClusters' = [doClusters EXCEPT ![id] = st]
    /\ UNCHANGED <<now, instances, clusters, doDroplets, pa, pb, calls, last, cache>>

OverlapNext ==
    \/ KcStart(1, Owner, "alpha", 1)
    \/ KcRespond(1, <<"2xx", "2xx", "2xx">>, "provisioning")
    \/ KcReply(1)
    \/ \E id \in ClusterIds, st \in {"running", "degraded", "errored"} : ProviderProgress(id, st)
    \/ \E id \in ClusterIds, st \in {"running", "degraded", "errored"} : ProviderChange(id, st)
    \/ PassBStart
    \/ \E resps \in {<<"2xx", "2xx", "2xx">>, <<"5xx", "5xx", "5xx">>} : PbGet(resps, TRUE)
    \/ \E resps \in {<<"2xx", "2xx", "2xx">>, <<"4xx", "2xx", "2xx">>} : PbKubeconfig(resps, TRUE)
    \/ PbNext
    \/ PbSwitch

SpecOverlap == Init /\ [][OverlapNext]_vars

-----------------------------------------------------------------------------
(* The sweep, run again and again, and a provider that comes to accept the delete *)

\* from its recovery on the provider accepts every delete request
Accepting == "accepting" \in DOMAIN last /\ last.accepting

\* the provider recovers
ProviderAccepts ==
    /\ ~ Accepting
    /\ last' = [op |-> "provider", accepting |-> TRUE, at |-> now]
    /\ UNCHANGED <<now, instances, clusters, doDroplets, doClusters, pa, pb, calls, cache>>

\* await delete_droplet(...) of the sweep, answered by the provider as it is
LvDeleteVm(res) ==
    /\ Accepting => res = "ok"
    /\ PaDeleteVm(res)

\* await delete_k8s_cluster(...) of the sweep, answered by the provider as it is
LvDeleteK8s(resps) ==
    /\ Accepting => ClientResult(resps) = "ok"
    /\ PaDeleteK8s(resps)

\* a step of the sweep: its start, or the return of the await it is at
SweepStep ==
    \/ PassAStart
    \/ PaNext
    \/ PaWarn(TRUE)
    \/ \E res \in {"ok", "failed"} : PaSnapshot(res)
    \/ PaWaitAction("completed")
    \/ \E res \in DeleteResults : LvDeleteVm(res)
    \/ \E resps \in {<<"2xx", "2xx", "2xx">>, <<"429", "429", "429">>} : LvDeleteK8s(resps)

\* one droplet and one cluster, the days passing
LiveNext ==
    \/ \E d \in 0..MaxDay : Tick(d * SecondsPerDay)
    \/ (\A i \in DropletIds : doDroplets[i] = "none") /\ CreateDroplet(Owner, 1, "ok")
    \/ KcStart(1, Owner, "alpha", 1)
    \/ KcRespond(1, <<"2xx", "2xx", "2xx">>, "provisioning")
    \/ KcReply(1)
    \/ ProviderAccepts
    \/ SweepStep

\* run_repeating starts the sweep again and again, and every await of the sweep
\* returns: the requests and the wait for the snapshot have timeouts
SpecLive == Init /\ [][LiveNext]_vars /\ WF_vars(SweepStep)

\* the row of the resource is in the store and its expiration has passed
Expired(kind, id) ==
    LET tbl == IF kind = "vm" THEN instances ELSE clusters
    IN  tbl[id] # NoRow /\ StrPTime(tbl[id].expiration_date) <= now

\* the sweep has just removed the resource and sent auto_deleted for it
AutoDeleted(kind, id) ==
    /\ pa.pc = "next"
    /\ pa.cur.kind = kind /\ pa.cur.id = id
    /\ pa.cur.del = "ok"
    /\ "auto_deleted" \in pa.cur.notes
    /\ (IF kind = "vm" THEN instances ELSE clusters)[id] = NoRow

\* C39: a droplet or a cluster whose expiration has passed and whose row is in the
\* store is in the list of every sweep that starts from then on and goes to the delete
\* request in it; and once the provider accepts the delete requests, the row is
\* eventually removed and auto_deleted sent, the sweep being started again and again.
C39_ExpiredEventuallyRemoved ==
    /\ [][/\ (pa.pc = "idle" /\ pa' # pa) =>
                \A id \in DropletIds : Expired("vm", id) =>
                    \/ pa'.cur.id = id /\ pa'.cur.kind = "vm" /\ pa'.pc = "vm_snap"
                    \/ \E k \in DOMAIN pa'.queue : pa'.queue[k].id = id
          /\ (pa.cur # None /\ pa'.cur # None /\ pa.cur.kind = "vm" /\ pa'.cur.kind = "k8s") =>
                \A id \in ClusterIds : Expired("k8s", id) =>
                    \/ pa'.cur.id = id /\ pa'.pc = "k8s_delete"
                    \/ \E k \in DOMAIN pa'.queue : pa'.queue[k].id = id
          /\ (/\ pa.pc = "next" /\ pa' # pa /\ pa'.pc # "idle" /\ pa'.cur.kind = pa.cur.kind
              /\ Expired(pa'.cur.kind, pa'.cur.id))
                => pa'.pc \in {"vm_snap", "k8s_delete"}
         ]_vars
    /\ \A id \in DropletIds : (Expired("vm", id) /\ Accepting) ~> AutoDeleted("vm", id)
    /\ \A id \in ClusterIds : (Expired("k8s", id) /\ Accepting) ~> AutoDeleted("k8s", id)

\* a droplet that had been expired for a day, its delete request refused until then,
\* was removed by the sweep on the day the provider recovered
C39_Witness ==
    /\ Accepting
    /\ last.at = now
    /\ AutoDeleted("vm", pa.cur.id)
    /\ pa.cur.left <= 0 - SecondsPerDay

-----------------------------------------------------------------------------
(* From provisioning to the one message *)

\* the ids of a run's list
ListIds(p) == {p.queue[k].id : k \in DOMAIN p.queue} \cup (IF p.cur = None THEN {} ELSE {p.cur.id})

\* C40: every run of the poll takes every cluster stored as provisioning, and only
\* those; a cluster the provider still reports as provisioning is left as it is, with
\* no message; when the status query succeeds and reports running, degraded or
\* errored, the item ends with the row, unless the sweep has removed it meanwhile, out
\* of provisioning and with the one message to the creator, ready or errored, handed
\* over; no later run takes the cluster again.
C40_ProvisioningResolves ==
    [][/\ (pb.pc = "idle" /\ pb' # pb) =>
             ListIds(pb') = ProvisioningIds(clusters)
       /\ (pb.pc = "get" /\ pb' # pb /\ pb'.cur.live = "provisioning") =>
             /\ pb'.pc = "next"
             /\ clusters' = clusters
             /\ pb'.cur.notes = {} /\ pb'.cur.dm = "-"
       /\ (pb' # pb /\ pb'.pc = "next" /\ pb'.cur.live \in {"running", "degraded", "errored"}) =>
             /\ clusters'[pb'.cur.id] # NoRow =>
                   clusters'[pb'.cur.id].status = (IF pb'.cur.live = "errored" THEN "errored"
                                                   ELSE "running")
             /\ pb'.cur.notes \cap {"ready", "errored"}
                    = {IF pb'.cur.live = "errored" THEN "errored" ELSE "ready"}
      ]_vars

====
